---- MODULE Spec2Model ----
(***************************************************************************)
(* Federated issue action: the permission check, the repository discovery  *)
(* and the run of the action over one issue event, with the remote issue   *)
(* graph the runs act on.                                                  *)
(*                                                                         *)
(* Strings the code splits or matches are modelled as sequences: a team    *)
(* entry is the sequence of its "/"-separated segments, a repository name  *)
(* and a pattern are sequences of characters.                              *)
(***************************************************************************)
EXTENDS Integers, Sequences, FiniteSets, TLC

VARIABLES
    repositories, \* what paginate(listForOrg) returns for the owner
    remote,       \* the child issues that exist remotely, by creation order
    document,     \* what getContent answered for the configuration path
    runs,         \* number of runs started so far
    pc,           \* position of the current run / of its handler
    settings,     \* the action inputs of the current run
    event,        \* the trigger payload of the current run
    owner,        \* context.repo.owner
    config,       \* the configuration getConfig returned
    answers,      \* what the k-th membership lookup of this check answers
    authz,        \* the result of the permission check and the lookups it made
    repos,        \* the repositories discoverRepositories returned
    parentNodeId, \* the node ID getIssueNodeId returned for the parent
    childIssues,  \* the list getChildIssues returned to the handler
    idx,          \* loop index of the handler
    runReturned,  \* run() has left its try block
    failed,       \* core.setFailed was called
    unhandled,    \* a handler promise rejected with nobody awaiting it
    calls,        \* the remote calls of the current run, in order
    logs          \* the log lines of the current run, in order

vars == <<repositories, document, remote, runs, pc, settings, event, owner, config,
          answers, authz, repos, parentNodeId, childIssues, idx, runReturned, failed,
          unhandled, calls, logs>>

----------------------------------------------------------------------------
(* Bounds of the model. *)

MaxRuns == 2
MaxIssues == 2
MaxTeams == 2

----------------------------------------------------------------------------
(* Values. *)

Logins == {"alice", "bob"}
Owners == {"org1", "alice"}
Outcomes == {"active", "pending", "notfound", "error"}
TeamEntries == {<<"t1">>, <<"org2", "t1">>, <<"t2">>}
Actions == {"labeled", "edited", "closed", "unlabeled"}
NoNodeId == "none"

SeqsUpTo(S, n) == UNION {[1..k -> S] : k \in 0..n}

----------------------------------------------------------------------------
(* Permission check, src/permissions (exported validatePermission).         *)

\* teamSlug.includes('/') ? teamSlug.split('/') : [owner, teamSlug]
TeamOrgOwner(team, repoOwner) == repoOwner

TeamOrg(team, repoOwner) == IF Len(team) > 1 THEN team[1] ELSE repoOwner

TeamSlug(team) == IF Len(team) > 1 THEN team[2] ELSE team[1]

MembershipCall(team, repoOwner, username) ==
    [org |-> TeamOrg(team, repoOwner), team_slug |-> TeamSlug(team),
     username |-> username]

\* response.data.state === 'active'
IsActiveM(outcome) == outcome \in {"active", "pending"}

IsActive(outcome) == outcome = "active"

\* The loop over config.allowed.teams with its try/catch, from entry i on.
RECURSIVE checkTeamsAbort(_, _, _, _, _)
checkTeamsAbort(teams, ans, repoOwner, username, i) ==
    IF i > Len(teams)
    THEN [granted |-> FALSE, lookups |-> <<>>]
    ELSE LET call == MembershipCall(teams[i], repoOwner, username)
             rest == checkTeamsAbort(teams, ans, repoOwner, username, i + 1)
         IN  IF IsActive(ans[i])
             THEN [granted |-> TRUE, lookups |-> <<call>>]
             ELSE IF ans[i] = "error"
             THEN [granted |-> FALSE, lookups |-> <<call>>]
             ELSE [granted |-> rest.granted, lookups |-> <<call>> \o rest.lookups]

RECURSIVE checkTeamsAll(_, _, _, _, _)
checkTeamsAll(teams, ans, repoOwner, username, i) ==
    IF i > Len(teams)
    THEN [granted |-> FALSE, lookups |-> <<>>]
    ELSE LET call == MembershipCall(teams[i], repoOwner, username)
             rest == checkTeamsAll(teams, ans, repoOwner, username, i + 1)
         IN  [granted |-> IsActive(ans[i]) \/ rest.granted,
              lookups |-> <<call>> \o rest.lookups]

RECURSIVE checkTeams(_, _, _, _, _)
checkTeams(teams, ans, repoOwner, username, i) ==
    IF i > Len(teams)
    THEN [granted |-> FALSE, lookups |-> <<>>]
    ELSE LET call == MembershipCall(teams[i], repoOwner, username)
             rest == checkTeams(teams, ans, repoOwner, username, i + 1)
         IN  IF IsActive(ans[i])
             THEN [granted |-> TRUE, lookups |-> <<call>>]
             ELSE [granted |-> rest.granted, lookups |-> <<call>> \o rest.lookups]

validatePermissionNoUsers(cfg, ans, repoOwner, username) ==
    IF cfg.users = {} /\ Len(cfg.teams) = 0
    THEN [granted |-> TRUE, lookups |-> <<>>]
    ELSE checkTeams(cfg.teams, ans, repoOwner, username, 1)

validatePermission(cfg, ans, repoOwner, username) ==
    IF cfg.users = {} /\ Len(cfg.teams) = 0
    THEN [granted |-> TRUE, lookups |-> <<>>]
    ELSE IF username \in cfg.users
    THEN [granted |-> TRUE, lookups |-> <<>>]
    ELSE checkTeams(cfg.teams, ans, repoOwner, username, 1)

----------------------------------------------------------------------------
(* Permission check local to the action's entry module, the one run() calls. *)

RECURSIVE checkTeamsIndex(_, _, _, _, _)
checkTeamsIndex(teams, ans, repoOwner, username, i) ==
    IF i > Len(teams)
    THEN [granted |-> FALSE, lookups |-> <<>>]
    ELSE LET call == MembershipCall(teams[i], repoOwner, username)
             rest == checkTeamsIndex(teams, ans, repoOwner, username, i + 1)
         IN  IF ans[i] = "active"
             THEN [granted |-> TRUE, lookups |-> <<call>>]
             ELSE [granted |-> rest.granted, lookups |-> <<call>> \o rest.lookups]

validatePermissionIndex(cfg, ans, repoOwner, username) ==
    IF repoOwner = username
    THEN [granted |-> TRUE, lookups |-> <<>>]
    ELSE IF username \in cfg.users
    THEN [granted |-> TRUE, lookups |-> <<>>]
    ELSE checkTeamsIndex(cfg.teams, ans, repoOwner, username, 1)

----------------------------------------------------------------------------
(* Repository discovery.                                                    *)

\* repo.name.startsWith(pattern)
startsWith(name, pattern) ==
    /\ Len(pattern) <= Len(name)
    /\ SubSeq(name, 1, Len(pattern)) = pattern

\* repo.name.endsWith(pattern)
endsWith(name, pattern) ==
    /\ Len(pattern) <= Len(name)
    /\ SubSeq(name, Len(name) - Len(pattern) + 1, Len(name)) = pattern

\* repo.name.includes(pattern)
includes(name, pattern) ==
    \E i \in 0..(Len(name) - Len(pattern)) :
        SubSeq(name, i + 1, i + Len(pattern)) = pattern

isMatchOmittedStarts(name, operator, pattern) ==
    CASE operator = "starts-with" -> startsWith(name, pattern)
      [] operator = "contains" -> includes(name, pattern)
      [] operator = "ends-with" -> endsWith(name, pattern)
      [] OTHER -> startsWith(name, pattern)

isMatch(name, operator, pattern) ==
    CASE operator = "starts-with" -> startsWith(name, pattern)
      [] operator = "contains" -> includes(name, pattern)
      [] operator = "ends-with" -> endsWith(name, pattern)
      [] OTHER -> includes(name, pattern)

\* The repositories of the listing that match, as {owner, name, nodeId}.
RECURSIVE discoverByNamePattern(_, _, _, _)
discoverByNamePattern(repoOwner, operator, pattern, listing) ==
    IF listing = <<>>
    THEN <<>>
    ELSE LET repo == Head(listing)
             rest == discoverByNamePattern(repoOwner, operator, pattern, Tail(listing))
         IN  IF isMatch(repo.name, operator, pattern)
             THEN <<[owner |-> repoOwner, name |-> repo.name, nodeId |-> repo.node_id]>> \o rest
             ELSE rest

\* repoNames.map(name => ({owner, name})): no nodeId.
getExplicitRepositories(repoOwner, repoNames) ==
    [k \in 1..Len(repoNames) |->
        [owner |-> repoOwner, name |-> repoNames[k], nodeId |-> NoNodeId]]

\* [ok, list, listed]: ok is FALSE when the selector throws; listed counts the
\* listForOrg calls. listOk tells whether the listing call succeeds.
getRepositoriesForSelectorListing(selector, repoOwner, listing, listOk) ==
    CASE selector.method = "name-pattern" ->
           IF listOk
           THEN [ok |-> TRUE, listed |-> 1,
                 list |-> discoverByNamePattern(repoOwner, selector.operator,
                                                selector.pattern, listing)]
           ELSE [ok |-> FALSE, listed |-> 1, list |-> <<>>]
      [] selector.method = "explicit" ->
           [ok |-> listOk, listed |-> 1,
            list |-> IF listOk
                     THEN getExplicitRepositories(repoOwner,
                            IF selector.hasRepositories THEN selector.repositories ELSE <<>>)
                     ELSE <<>>]
      [] OTHER -> [ok |-> FALSE, listed |-> 0, list |-> <<>>]

getRepositoriesForSelectorSkip(selector, repoOwner, listing, listOk) ==
    CASE selector.method = "name-pattern" ->
           IF listOk
           THEN [ok |-> TRUE, listed |-> 1,
                 list |-> discoverByNamePattern(repoOwner, selector.operator,
                                                selector.pattern, listing)]
           ELSE [ok |-> FALSE, listed |-> 1, list |-> <<>>]
      [] selector.method = "explicit" ->
           [ok |-> TRUE, listed |-> 0,
            list |-> getExplicitRepositories(repoOwner,
                        IF selector.hasRepositories THEN selector.repositories ELSE <<>>)]
      [] OTHER -> [ok |-> TRUE, listed |-> 0, list |-> <<>>]

getRepositoriesForSelector(selector, repoOwner, listing, listOk) ==
    CASE selector.method = "name-pattern" ->
           IF listOk
           THEN [ok |-> TRUE, listed |-> 1,
                 list |-> discoverByNamePattern(repoOwner, selector.operator,
                                                selector.pattern, listing)]
           ELSE [ok |-> FALSE, listed |-> 1, list |-> <<>>]
      [] selector.method = "explicit" ->
           [ok |-> TRUE, listed |-> 0,
            list |-> getExplicitRepositories(repoOwner,
                        IF selector.hasRepositories THEN selector.repositories ELSE <<>>)]
      [] OTHER -> [ok |-> FALSE, listed |-> 0, list |-> <<>>]

\* repoMap.set(repo.name, repo): an existing key keeps its place, its value is replaced.
mapSetAppend(m, repo) == Append(m, repo)

mapSet(m, repo) ==
    IF \E k \in 1..Len(m) : m[k].name = repo.name
    THEN [k \in 1..Len(m) |-> IF m[k].name = repo.name THEN repo ELSE m[k]]
    ELSE Append(m, repo)

RECURSIVE mapSetAll(_, _)
mapSetAll(m, list) ==
    IF list = <<>> THEN m ELSE mapSetAll(mapSet(m, Head(list)), Tail(list))

\* The loop over config.targetRepositorySelectors from selector i on, repoMap being m.
RECURSIVE discoverFromFirst(_, _, _, _, _, _)
discoverFromFirst(selectors, repoOwner, listing, listOk, i, m) ==
    IF i > Len(selectors)
    THEN [ok |-> TRUE, listed |-> 0, list |-> m]
    ELSE LET got == getRepositoriesForSelector(selectors[i], repoOwner, listing, listOk)
         IN  IF ~got.ok
             THEN [ok |-> FALSE, listed |-> got.listed, list |-> <<>>]
             ELSE IF got.list # <<>>
             THEN [ok |-> TRUE, listed |-> got.listed, list |-> mapSetAll(m, got.list)]
             ELSE LET rest == discoverFromFirst(selectors, repoOwner, listing, listOk,
                                                i + 1, mapSetAll(m, got.list))
                  IN  [ok |-> rest.ok, listed |-> got.listed + rest.listed,
                       list |-> rest.list]

RECURSIVE discoverFrom(_, _, _, _, _, _)
discoverFrom(selectors, repoOwner, listing, listOk, i, m) ==
    IF i > Len(selectors)
    THEN [ok |-> TRUE, listed |-> 0, list |-> m]
    ELSE LET got == getRepositoriesForSelector(selectors[i], repoOwner, listing, listOk)
         IN  IF ~got.ok
             THEN [ok |-> FALSE, listed |-> got.listed, list |-> <<>>]
             ELSE LET rest == discoverFrom(selectors, repoOwner, listing, listOk,
                                           i + 1, mapSetAll(m, got.list))
                  IN  [ok |-> rest.ok, listed |-> got.listed + rest.listed,
                       list |-> rest.list]

discoverRepositoriesOnce(cfg, repoOwner, listing, listOk) ==
    LET got == discoverFrom(cfg.targetRepositorySelectors, repoOwner, listing, listOk, 1, <<>>)
    IN  [got EXCEPT !.listed = IF got.listed > 1 THEN 1 ELSE got.listed]

discoverRepositories(cfg, repoOwner, listing, listOk) ==
    discoverFrom(cfg.targetRepositorySelectors, repoOwner, listing, listOk, 1, <<>>)

----------------------------------------------------------------------------
(* The remote side: what the calls of a run can meet.                       *)

Sdk1 == <<"s", "1">>
Sdk2 == <<"s", "2">>
Web == <<"x">>

\* What client.paginate(listForOrg) returns for the owner.
OrgListing ==
    << [name |-> Sdk1, node_id |-> "R1"],
       [name |-> Sdk2, node_id |-> "R2"],
       [name |-> Web, node_id |-> "R3"] >>

NamePattern(pattern, operator) ==
    [method |-> "name-pattern", pattern |-> pattern, operator |-> operator,
     hasRepositories |-> FALSE, repositories |-> <<>>]

Explicit(names) ==
    [method |-> "explicit", pattern |-> <<>>, operator |-> "contains",
     hasRepositories |-> TRUE, repositories |-> names]

Unknown ==
    [method |-> "topic", pattern |-> <<>>, operator |-> "contains",
     hasRepositories |-> FALSE, repositories |-> <<>>]

\* An explicit selector without its repositories field.
ExplicitNoField ==
    [method |-> "explicit", pattern |-> <<>>, operator |-> "contains",
     hasRepositories |-> FALSE, repositories |-> <<>>]

RunSelectors ==
    { <<Explicit(<<Sdk1, Sdk2>>)>>,
      <<NamePattern(<<"s">>, "starts-with")>>,
      <<Explicit(<<Web>>)>>,
      <<Explicit(<<>>)>>,
      <<NamePattern(<<"q">>, "contains")>>,
      <<ExplicitNoField>>,
      <<Unknown>> }

RunAllowed ==
    { [users |-> {}, teams |-> <<>>],
      [users |-> {"alice"}, teams |-> <<>>],
      [users |-> {}, teams |-> << <<"t1">> >>] }

\* What getContent can meet at the configuration path: nothing (the call is
\* rejected), a directory (no content field), a file without content, a file
\* that is not JSON, or a file holding a JSON document.
NoDoc == [users |-> {}, teams |-> <<>>, targetRepositorySelectors |-> <<>>]

NoSource == [kind |-> "none", doc |-> NoDoc]

ConfigSources ==
    { [kind |-> k, doc |-> NoDoc] : k \in {"missing", "dir", "empty", "badjson"} }
    \cup
    { [kind |-> "file",
       doc |-> [users |-> a.users, teams |-> a.teams, targetRepositorySelectors |-> sel]] :
        a \in RunAllowed, sel \in RunSelectors }

NullBody == "null"
ParentContents ==
    { [title |-> "T1", body |-> "B1"], [title |-> "T2", body |-> NullBody] }

LabelSets == { {"other"}, {"federated"} }

Events ==
    { [hasIssue |-> FALSE, labels |-> {}, action |-> a, login |-> "nobody",
       title |-> "", body |-> NullBody] : a \in {"labeled"} }
    \cup
    { [hasIssue |-> TRUE, labels |-> l, action |-> a, login |-> u,
       title |-> c.title, body |-> c.body] :
        l \in LabelSets, a \in Actions, u \in Logins, c \in ParentContents }

Settings ==
    [requiredLabel : {"federated"},
     notifyMissingPermissions : BOOLEAN,
     closeIssuesOnParentClose : BOOLEAN]

NoSettings ==
    [requiredLabel |-> "federated", notifyMissingPermissions |-> TRUE,
     closeIssuesOnParentClose |-> TRUE]

NoEvent ==
    [hasIssue |-> FALSE, labels |-> {}, action |-> "labeled", login |-> "nobody",
     title |-> "", body |-> NullBody]

NoAuthz == [fn |-> "none", granted |-> FALSE, lookups |-> <<>>]

ParentId == <<"P">>
NoId == <<>>
ChildId(n) == <<"I", n>>

----------------------------------------------------------------------------
(* Records of what a run did.                                               *)

Call(op, repo, num, title, body, ok) ==
    [op |-> op, repo |-> repo, num |-> num, title |-> title, body |-> body, ok |-> ok]

Log(level, msg) == [level |-> level, msg |-> msg]

----------------------------------------------------------------------------
(* Issue operations.                                                        *)

ChildTitle == "This is a child issue"
ChildBody == "See parent issue for details"

\* The request createChildIssue sends: rest.issues.create({owner, repo, title, body}).
createRequest(parentIssue, targetRepo) ==
    [owner |-> targetRepo.owner, repo |-> targetRepo.name,
     title |-> ChildTitle, body |-> ChildBody]

\* The request updateChildIssue sends: rest.issues.update({..., title, body}).
updateRequest(childIssue, parentIssue) ==
    [owner |-> childIssue.owner, repo |-> childIssue.repo,
     issue_number |-> childIssue.number,
     title |-> ChildTitle, body |-> ChildBody]

\* The request updateChildIssueStatus sends: state: isOpen ? 'open' : 'closed'.
statusRequestFlipped(childIssue, isOpen) ==
    [owner |-> childIssue.owner, repo |-> childIssue.repo,
     issue_number |-> childIssue.number,
     state |-> IF isOpen THEN "closed" ELSE "open"]

statusRequest(childIssue, isOpen) ==
    [owner |-> childIssue.owner, repo |-> childIssue.repo,
     issue_number |-> childIssue.number,
     state |-> IF isOpen THEN "open" ELSE "closed"]

\* Values an id argument can hold that are not strings.
NullId == <<"null">>
UndefinedId == <<"undefined">>
ZeroId == <<"number", 0>>
NumberId == <<"number", 7>>
NonStringIds == {NullId, UndefinedId, ZeroId, NumberId}

\* !id : the empty string, null, undefined and 0 are falsy.
falsy(id) == id \in {NoId, NullId, UndefinedId, ZeroId}

\* !id || typeof id !== 'string'
validNodeIdTruthy(id) == ~falsy(id)

validNodeId(id) == ~falsy(id) /\ id \notin NonStringIds

\* linkIssueAsSubItem: [ok, error, calls]; both ids are validated before the
\* mutation is sent, linkOk tells whether the mutation succeeds.
linkIssueAsSubItem(parentId, childId, linkOk) ==
    IF ~validNodeId(parentId)
    THEN [ok |-> FALSE, error |-> "Invalid parent issue ID", calls |-> <<>>]
    ELSE IF ~validNodeId(childId)
    THEN [ok |-> FALSE, error |-> "Invalid child issue ID", calls |-> <<>>]
    ELSE [ok |-> linkOk, error |-> IF linkOk THEN "" ELSE "GraphQL error",
          calls |-> <<"addSubIssue">>]

\* The loop of getChildIssues over the response's nodes: one reference per node.
RECURSIVE linkedFromAll(_, _)
linkedFromAll(rem, n) ==
    IF n > Len(rem)
    THEN <<>>
    ELSE <<[owner |-> rem[n].owner, repo |-> rem[n].repo, number |-> n,
            nodeId |-> ChildId(n)]>> \o linkedFromAll(rem, n + 1)

RECURSIVE linkedFrom(_, _)
linkedFrom(rem, n) ==
    IF n > Len(rem)
    THEN <<>>
    ELSE IF rem[n].linked
    THEN <<[owner |-> rem[n].owner, repo |-> rem[n].repo, number |-> n,
            nodeId |-> ChildId(n)]>> \o linkedFrom(rem, n + 1)
    ELSE linkedFrom(rem, n + 1)

\* subIssues(first: 50): the query asks for one page and no further one.
PageSize == 50

firstPage(list) == SubSeq(list, 1, IF Len(list) < PageSize THEN Len(list) ELSE PageSize)

\* getChildIssues: [ok, list]. It reads response.repository.issue.trackedInIssues,
\* so an answer of any other shape makes it throw.
getChildIssues(nodeId, rem, queryOk, shape) ==
    IF ~validNodeId(nodeId) \/ ~queryOk \/ shape # "repository.issue.trackedInIssues"
    THEN [ok |-> FALSE, list |-> <<>>]
    ELSE [ok |-> TRUE, list |-> firstPage(linkedFrom(rem, 1))]

ResponseShapes == {"repository.issue.trackedInIssues", "node.subIssues"}

\* What a call of getChildIssues throws, "" when it returns, and the queries it sent.
getChildIssuesThrown(nodeId, queryOk, shape) ==
    IF ~validNodeId(nodeId)
    THEN [error |-> "Invalid parent issue ID", calls |-> <<>>]
    ELSE IF ~queryOk
    THEN [error |-> "GraphQL error", calls |-> <<"subIssues">>]
    ELSE IF shape # "repository.issue.trackedInIssues"
    THEN [error |-> "TypeError", calls |-> <<"subIssues">>]
    ELSE [error |-> "", calls |-> <<"subIssues">>]

----------------------------------------------------------------------------
(* The run of the action over one event.                                    *)

Init ==
    /\ repositories = OrgListing
    /\ document = NoSource
    /\ remote = <<>>
    /\ runs = 0
    /\ pc = "idle"
    /\ settings = NoSettings
    /\ event = NoEvent
    /\ owner \in Owners
    /\ config = NoDoc
    /\ answers = <<>>
    /\ authz = NoAuthz
    /\ repos = <<>>
    /\ parentNodeId = NoId
    /\ childIssues = <<>>
    /\ idx = 0
    /\ runReturned = FALSE
    /\ failed = FALSE
    /\ unhandled = FALSE
    /\ calls = <<>>
    /\ logs = <<>>

\* An issue event triggers the workflow; run() reads its inputs and the context.
\* A missing github-token makes getInput throw, which the catch of run() reports.
StartRun ==
    /\ pc = "idle"
    /\ runs < MaxRuns
    /\ runs' = runs + 1
    /\ \E e \in Events, st \in Settings, hasToken \in BOOLEAN :
         /\ event' = e
         /\ settings' = st
         /\ IF hasToken
            THEN /\ pc' = "gate"
                 /\ UNCHANGED <<failed, runReturned, logs>>
            ELSE /\ pc' = "done"
                 /\ failed' = TRUE
                 /\ runReturned' = TRUE
                 /\ logs' = Append(logs, Log("failed", "Action failed"))
    /\ UNCHANGED <<repositories, document, remote, owner, config, answers, authz, repos, parentNodeId,
                   childIssues, idx, unhandled, calls>>

\* The process of the run ends: nothing of it is kept, the remote issues stay.
Exit ==
    /\ pc = "done"
    /\ pc' = "idle"
    /\ document' = NoSource
    /\ settings' = NoSettings
    /\ event' = NoEvent
    /\ config' = NoDoc
    /\ answers' = <<>>
    /\ authz' = NoAuthz
    /\ repos' = <<>>
    /\ parentNodeId' = NoId
    /\ childIssues' = <<>>
    /\ idx' = 0
    /\ runReturned' = FALSE
    /\ failed' = FALSE
    /\ unhandled' = FALSE
    /\ calls' = <<>>
    /\ logs' = <<>>
    /\ UNCHANGED <<repositories, remote, runs, owner>>

\* issue.labels.some(label => label.name === requiredLabel)
hasParentLabelAny(e, st) == e.labels # {}

hasParentLabel(e, st) == st.requiredLabel \in e.labels

\* Skip non-issue events and issues without the required label.
LabelGate ==
    /\ pc = "gate"
    /\ IF ~event.hasIssue
       THEN /\ logs' = Append(logs, Log("debug", "Not an issue event, skipping"))
            /\ pc' = "done"
            /\ runReturned' = TRUE
       ELSE IF ~hasParentLabel(event, settings)
       THEN /\ logs' = Append(logs, Log("info", "Issue does not have label, skipping"))
            /\ pc' = "done"
            /\ runReturned' = TRUE
       ELSE /\ logs' = logs
            /\ pc' = "config"
            /\ runReturned' = FALSE
    /\ UNCHANGED <<repositories, document, remote, runs, settings, event, owner, config, answers, authz,
                   repos, parentNodeId, childIssues, idx, failed, unhandled, calls>>

\* configSchema.parse: every selector is of a known method, an explicit one
\* lists its repositories.
schemaValid(doc) ==
    \A k \in 1..Len(doc.targetRepositorySelectors) :
        LET sel == doc.targetRepositorySelectors[k]
        IN  \/ sel.method = "name-pattern"
            \/ sel.method = "explicit" /\ sel.hasRepositories

\* getConfig: [ok, config]; every failure is rethrown as "Failed to load configuration".
getConfigUnparsed(source) ==
    IF source.kind = "file"
    THEN [ok |-> TRUE, config |-> source.doc]
    ELSE [ok |-> FALSE, config |-> NoDoc]

getConfig(source) ==
    IF source.kind = "file" /\ schemaValid(source.doc)
    THEN [ok |-> TRUE, config |-> source.doc]
    ELSE [ok |-> FALSE, config |-> NoDoc]

LoadConfig ==
    /\ pc = "config"
    /\ \E source \in ConfigSources :
         LET got == getConfig(source)
         IN  /\ document' = source
             /\ calls' = Append(calls, Call("getContent", <<>>, 0, "", "",
                                            source.kind # "missing"))
             /\ IF got.ok
                THEN /\ config' = got.config
                     /\ pc' = "perm"
                     /\ UNCHANGED <<failed, runReturned, logs>>
                ELSE /\ config' = config
                     /\ pc' = "done"
                     /\ failed' = TRUE
                     /\ runReturned' = TRUE
                     /\ logs' = Append(logs, Log("failed", "Failed to load configuration"))
    /\ UNCHANGED <<repositories, remote, runs, settings, event, owner, answers, authz, repos,
                   parentNodeId, childIssues, idx, unhandled>>

\* One getMembershipForUserInOrg call per lookup the check made.
lookupCallsNotify(lookups, ans) ==
    [k \in 1..Len(lookups) |->
        Call("getMembership", <<>>, k, "", "", ans[k] \in {"active", "pending"})]
    \o <<Call("createComment", <<>>, 0, "", "", TRUE)>>

lookupCalls(lookups, ans) ==
    [k \in 1..Len(lookups) |->
        Call("getMembership", <<>>, k, "", "", ans[k] \in {"active", "pending"})]

\* if (!hasPermission) { ...; return; }
permissionNextOn(granted) == "discover"

permissionNextSkip(granted) == IF granted THEN "nodeId" ELSE "done"

permissionNext(granted) == IF granted THEN "discover" ELSE "done"

\* if (notifyMissingPermissions) { await addNoPermissionComment(...) }
shouldNotifyAlways(st) == TRUE

shouldNotify(st) == st.notifyMissingPermissions

\* validatePermission and the branch on its result.
CheckPermission ==
    /\ pc = "perm"
    /\ \E ans \in [1..Len(config.teams) -> Outcomes], commentOk \in BOOLEAN :
         LET res == validatePermissionIndex(config, ans, owner, event.login)
             looked == calls \o lookupCalls(res.lookups, ans)
         IN  /\ answers' = ans
             /\ authz' = [fn |-> "index", granted |-> res.granted, lookups |-> res.lookups]
             /\ IF res.granted
                THEN /\ calls' = looked
                     /\ pc' = permissionNext(res.granted)
                     /\ commentOk
                     /\ UNCHANGED <<logs, failed, runReturned>>
                ELSE IF shouldNotify(settings)
                THEN /\ calls' = Append(looked, Call("createComment", <<>>, 0, "", "", commentOk))
                     /\ pc' = permissionNext(res.granted)
                     /\ runReturned' = TRUE
                     /\ failed' = ~commentOk
                     /\ logs' = logs \o <<Log("warning", "User does not have permission"),
                                          Log("debug", "Notifying user about missing permissions")>>
                                     \o (IF commentOk THEN <<>> ELSE <<Log("failed", "Action failed")>>)
                ELSE /\ calls' = looked
                     /\ pc' = permissionNext(res.granted)
                     /\ runReturned' = TRUE
                     /\ commentOk
                     /\ failed' = failed
                     /\ logs' = logs \o <<Log("warning", "User does not have permission"),
                                          Log("debug", "Skipping notification about missing permissions")>>
    /\ UNCHANGED <<repositories, document, remote, runs, settings, event, owner, config, repos,
                   parentNodeId, childIssues, idx, unhandled>>

\* if (repos.length === 0) { core.warning(...); return; }
emptyNextOn(n) == "nodeId"

emptyNext(n) == IF n = 0 THEN "done" ELSE "nodeId"

\* discoverRepositories and the check for an empty result.
Discover ==
    /\ pc = "discover"
    /\ \E listOk \in BOOLEAN :
         LET got == discoverRepositories(config, owner, repositories, listOk)
         IN  /\ listOk \/ got.listed > 0
             /\ calls' = calls \o [k \in 1..got.listed |-> Call("listForOrg", <<>>, k, "", "", listOk)]
             /\ IF ~got.ok
                THEN /\ repos' = <<>>
                     /\ pc' = "done"
                     /\ failed' = TRUE
                     /\ runReturned' = TRUE
                     /\ logs' = Append(logs, Log("failed", "Action failed"))
                ELSE IF Len(got.list) = 0
                THEN /\ repos' = got.list
                     /\ pc' = emptyNext(Len(got.list))
                     /\ runReturned' = (emptyNext(Len(got.list)) = "done")
                     /\ failed' = failed
                     /\ logs' = Append(logs, Log("warning", "No target repositories found"))
                ELSE /\ repos' = got.list
                     /\ pc' = emptyNext(Len(got.list))
                     /\ UNCHANGED <<failed, runReturned, logs>>
    /\ UNCHANGED <<repositories, document, remote, runs, settings, event, owner, config, answers, authz,
                   parentNodeId, childIssues, idx, unhandled>>

\* getIssueNodeId for the parent issue.
FetchParentNodeId ==
    /\ pc = "nodeId"
    /\ \E ok \in BOOLEAN :
         /\ calls' = Append(calls, Call("getIssueNodeId", <<>>, 0, "", "", ok))
         /\ IF ok
            THEN /\ parentNodeId' = ParentId
                 /\ pc' = "dispatch"
                 /\ logs' = Append(logs, Log("debug", "Parent issue node ID"))
                 /\ UNCHANGED <<failed, runReturned>>
            ELSE /\ parentNodeId' = parentNodeId
                 /\ pc' = "done"
                 /\ failed' = TRUE
                 /\ runReturned' = TRUE
                 /\ logs' = Append(logs, Log("failed", "Action failed"))
    /\ UNCHANGED <<repositories, document, remote, runs, settings, event, owner, config, answers, authz,
                   repos, childIssues, idx, unhandled>>

\* switch (action): the handler the action selects, if any.
dispatchNextCloseAlways(action, closeIssuesOnParentClose) ==
    CASE action = "labeled" -> "opened"
      [] action = "edited" -> "editedFetch"
      [] action = "closed" -> "statusFetch"
      [] OTHER -> "done"

dispatchNextUnlabeled(action, closeIssuesOnParentClose) ==
    CASE action = "labeled" -> "opened"
      [] action = "edited" -> "editedFetch"
      [] action = "closed" -> IF closeIssuesOnParentClose THEN "statusFetch" ELSE "done"
      [] action = "unlabeled" -> "statusFetch"
      [] OTHER -> "done"

dispatchNext(action, closeIssuesOnParentClose) ==
    CASE action = "labeled" -> "opened"
      [] action = "edited" -> "editedFetch"
      [] action = "closed" -> IF closeIssuesOnParentClose THEN "statusFetch" ELSE "done"
      [] OTHER -> "done"

\* switch (action): the handler is called and not awaited, run() returns.
Dispatch ==
    /\ pc = "dispatch"
    /\ runReturned' = TRUE
    /\ idx' = 1
    /\ pc' = dispatchNext(event.action, settings.closeIssuesOnParentClose)
    /\ logs' = CASE event.action = "labeled" ->
                     Append(logs, Log("debug", "Parent issue node ID"))
                [] event.action = "edited" -> logs
                [] event.action = "closed" ->
                     IF settings.closeIssuesOnParentClose
                     THEN Append(logs, Log("debug", "Closing child issues on parent issue close"))
                     ELSE Append(logs, Log("debug", "Not closing child issues on parent issue close"))
                [] OTHER -> Append(logs, Log("info", "Action not handled"))
    /\ UNCHANGED <<repositories, document, remote, runs, settings, event, owner, config, answers, authz,
                   repos, parentNodeId, childIssues, failed, unhandled, calls>>

\* The issue details run() extracts from the payload: body is issue.body || ''.
issueDetails(e) ==
    [title |-> e.title, body |-> IF e.body = NullBody THEN "" ELSE e.body,
     labels |-> e.labels]

\* Where a handler's loop goes after iteration i over n entries, the iteration
\* having succeeded or having been caught failing: on to the next entry either way.
loopNextAbort(here, i, n, ok) == IF i + 1 > n \/ ~ok THEN "done" ELSE here

loopNextShort(here, i, n, ok) == IF i + 2 > n THEN "done" ELSE here

loopNext(here, i, n, ok) == IF i + 1 > n THEN "done" ELSE here

\* The severity a handler's catch logs a failed iteration at: core.error in
\* handleIssueOpened, core.warning in the other two handlers.
failureLevelWarning(handler) == "warning"

failureLevel(handler) == IF handler = "opened" THEN "error" ELSE "warning"

\* The calls of one try block of handleIssueOpened: a create that throws takes
\* the block to its catch, the steps after it are not made.
tryCallsNoCatch(createCall, after) == <<createCall>> \o after

tryCallsRetry(createCall, after) ==
    IF createCall.ok THEN <<createCall>> \o after ELSE <<createCall, createCall>>

tryCalls(createCall, after) ==
    IF createCall.ok THEN <<createCall>> \o after ELSE <<createCall>>

\* handleIssueOpened, one iteration: create the child issue, get its node ID,
\* link it to the parent; any failure is caught and logged for that repository.
OpenedStep ==
    /\ pc = "opened"
    /\ idx <= Len(repos)
    /\ LET repo == repos[idx]
           req == createRequest(issueDetails(event), repo)
           n == Len(remote) + 1
           child == [owner |-> req.owner, repo |-> req.repo, title |-> req.title,
                     body |-> req.body, state |-> "open", linked |-> FALSE]
           created == Call("create", repo.name, n, req.title, req.body, TRUE)
           oops == Log(failureLevel("opened"), "Failed to create child issue")
       IN  \/ \* rest.issues.create throws
              /\ calls' = calls \o tryCalls(Call("create", repo.name, 0, req.title, req.body, FALSE),
                                           <<Call("addSubIssue", repo.name, 0, "", "", FALSE)>>)
              /\ logs' = logs \o <<Log("debug", "Creating child issue"), oops>>
              /\ remote' = remote
              /\ pc' = loopNext("opened", idx, Len(repos), FALSE)
           \/ \* the issue is created
              /\ Len(remote) < MaxIssues
              /\ \E hasNode \in BOOLEAN, fetchOk \in BOOLEAN, linkOk \in BOOLEAN :
                   LET fetched == IF hasNode THEN <<>>
                                  ELSE <<Call("getIssueNodeId", repo.name, n, "", "", fetchOk)>>
                       childNodeId == IF hasNode \/ fetchOk THEN ChildId(n) ELSE NoId
                   IN  /\ hasNode => fetchOk
                       /\ IF ~hasNode /\ ~fetchOk
                          THEN \* getIssueNodeId throws: the child stays unlinked
                               /\ linkOk
                               /\ calls' = calls \o tryCalls(created, fetched)
                               /\ remote' = Append(remote, child)
                               /\ logs' = logs \o <<Log("debug", "Creating child issue"), oops>>
                               /\ pc' = loopNext("opened", idx, Len(repos), FALSE)
                          ELSE IF validNodeId(parentNodeId) /\ validNodeId(childNodeId) /\ linkOk
                          THEN /\ calls' = calls \o tryCalls(created, fetched
                                           \o <<Call("addSubIssue", repo.name, n, "", "", TRUE)>>)
                               /\ remote' = Append(remote, [child EXCEPT !.linked = TRUE])
                               /\ logs' = logs \o <<Log("debug", "Creating child issue"),
                                                    Log("info", "Created and linked child issue")>>
                               /\ pc' = loopNext("opened", idx, Len(repos), TRUE)
                          ELSE /\ calls' = calls \o tryCalls(created, fetched
                                           \o <<Call("addSubIssue", repo.name, n, "", "", FALSE)>>)
                               /\ remote' = Append(remote, child)
                               /\ logs' = logs \o <<Log("debug", "Creating child issue"), oops>>
                               /\ pc' = loopNext("opened", idx, Len(repos), FALSE)
    /\ idx' = idx + 1
    /\ UNCHANGED <<repositories, document, runs, settings, event, owner, config, answers, authz, repos,
                   parentNodeId, childIssues, runReturned, failed, unhandled>>

\* for (const childIssue of childIssues): the children a handler visits are
\* all those the query returned; the resolved targets play no part.
childrenToVisitTargeted(list, targets) ==
    SelectSeq(list, LAMBDA c : \E r \in 1..Len(targets) : targets[r].name = c.repo)

childrenToVisit(list, targets) == list

\* The start of handleIssueEdited and of handleIssueStatusChanged: the linked
\* children are queried; a failing query rejects the handler's promise.
FetchChildren(here, loop) ==
    /\ pc = here
    /\ \E queryOk \in BOOLEAN, shape \in ResponseShapes :
         LET got == getChildIssues(parentNodeId, remote, queryOk, shape)
         IN  /\ queryOk \/ shape = "node.subIssues"
             /\ calls' = Append(calls, Call("subIssues", <<>>, 0, "", "", queryOk))
             /\ IF got.ok
                THEN /\ childIssues' = childrenToVisit(got.list, repos)
                     /\ logs' = Append(logs, Log("debug", "Found child issues"))
                     /\ pc' = IF Len(childrenToVisit(got.list, repos)) = 0 THEN "done" ELSE loop
                     /\ unhandled' = unhandled
                ELSE /\ childIssues' = childIssues
                     /\ logs' = logs
                     /\ pc' = "done"
                     /\ unhandled' = TRUE
    /\ idx' = 1
    /\ UNCHANGED <<repositories, document, remote, runs, settings, event, owner, config, answers, authz,
                   repos, parentNodeId, runReturned, failed>>

EditedFetch == FetchChildren("editedFetch", "edited")

\* handleIssueEdited, one iteration: update the child; a failure is caught and logged.
EditedStep ==
    /\ pc = "edited"
    /\ idx <= Len(childIssues)
    /\ LET child == childIssues[idx]
           req == updateRequest(child, issueDetails(event))
       IN  \E ok \in BOOLEAN :
             /\ calls' = Append(calls, Call("update", req.repo, req.issue_number,
                                            req.title, req.body, ok))
             /\ pc' = loopNext("edited", idx, Len(childIssues), ok)
             /\ IF ok
                THEN /\ remote' = [remote EXCEPT ![req.issue_number].title = req.title,
                                                  ![req.issue_number].body = req.body]
                     /\ logs' = logs \o <<Log("debug", "Updating child issue"),
                                          Log("info", "Updated child issue")>>
                ELSE /\ remote' = remote
                     /\ logs' = logs \o <<Log("debug", "Updating child issue"),
                                          Log(failureLevel("edited"), "Failed to update child issue")>>
    /\ idx' = idx + 1
    /\ UNCHANGED <<repositories, document, runs, settings, event, owner, config, answers, authz, repos,
                   parentNodeId, childIssues, runReturned, failed, unhandled>>

StatusFetch == FetchChildren("statusFetch", "status")

\* handleIssueStatusChanged, one iteration: updateChildIssueStatus(child, false).
StatusStep ==
    /\ pc = "status"
    /\ idx <= Len(childIssues)
    /\ LET child == childIssues[idx]
           req == statusRequest(child, FALSE)
       IN  \E ok \in BOOLEAN :
             /\ calls' = Append(calls, Call("setState", req.repo, req.issue_number,
                                            req.state, "", ok))
             /\ pc' = loopNext("status", idx, Len(childIssues), ok)
             /\ IF ok
                THEN /\ remote' = [remote EXCEPT ![req.issue_number].state = req.state]
                     /\ logs' = logs \o <<Log("debug", "Updating status of child issue"),
                                          Log("info", "Updated status of child issue")>>
                ELSE /\ remote' = remote
                     /\ logs' = logs \o <<Log("debug", "Updating status of child issue"),
                                          Log(failureLevel("status"), "Failed to update status of child issue")>>
    /\ idx' = idx + 1
    /\ UNCHANGED <<repositories, document, runs, settings, event, owner, config, answers, authz, repos,
                   parentNodeId, childIssues, runReturned, failed, unhandled>>

Next ==
    \/ StartRun
    \/ Exit
    \/ LabelGate
    \/ LoadConfig
    \/ CheckPermission
    \/ Discover
    \/ FetchParentNodeId
    \/ Dispatch
    \/ OpenedStep
    \/ EditedFetch
    \/ EditedStep
    \/ StatusFetch
    \/ StatusStep

Spec == Init /\ [][Next]_vars

----------------------------------------------------------------------------
(* The permission checks on their own, over every bounded policy, actor,    *)
(* owner and sequence of lookup answers.                                    *)

PermConfigs ==
    { [users |-> u, teams |-> t, targetRepositorySelectors |-> <<>>] :
        u \in SUBSET Logins, t \in SeqsUpTo(TeamEntries, MaxTeams) }

PermInit ==
    /\ repositories = OrgListing
    /\ document = NoSource
    /\ remote = <<>>
    /\ runs = 0
    /\ pc = "check"
    /\ settings = NoSettings
    /\ \E u \in Logins : event = [NoEvent EXCEPT !.login = u]
    /\ owner \in Owners
    /\ config \in PermConfigs
    /\ answers \in [1..Len(config.teams) -> Outcomes]
    /\ authz = NoAuthz
    /\ repos = <<>>
    /\ parentNodeId = NoId
    /\ childIssues = <<>>
    /\ idx = 0
    /\ runReturned = FALSE
    /\ failed = FALSE
    /\ unhandled = FALSE
    /\ calls = <<>>
    /\ logs = <<>>

PermFrame ==
    UNCHANGED <<repositories, document, remote, runs, settings, event, owner, config, answers, repos,
                parentNodeId, childIssues, idx, runReturned, failed, unhandled, logs>>

\* The exported validatePermission is applied.
ApplyValidatePermission ==
    /\ pc = "check"
    /\ LET res == validatePermission(config, answers, owner, event.login)
       IN  /\ authz' = [fn |-> "permissions", granted |-> res.granted, lookups |-> res.lookups]
           /\ calls' = lookupCalls(res.lookups, answers)
    /\ pc' = "checked"
    /\ PermFrame

\* The validatePermission of the entry module is applied.
ApplyValidatePermissionIndex ==
    /\ pc = "check"
    /\ LET res == validatePermissionIndex(config, answers, owner, event.login)
       IN  /\ authz' = [fn |-> "index", granted |-> res.granted, lookups |-> res.lookups]
           /\ calls' = lookupCalls(res.lookups, answers)
    /\ pc' = "checked"
    /\ PermFrame

PermNext ==
    \/ ApplyValidatePermission
    \/ ApplyValidatePermissionIndex

PermSpec == PermInit /\ [][PermNext]_vars

----------------------------------------------------------------------------
(* The run from the resolution stage on, over every bounded selector list,  *)
(* also the lists the schema would reject, and several listings.            *)

New == <<"n">>

\* A listing whose names tell the match modes and the letter case apart.
AltListing ==
    << [name |-> <<"1", "s">>, node_id |-> "R4"],
       [name |-> <<"x", "s", "1">>, node_id |-> "R5"],
       [name |-> <<"S", "1">>, node_id |-> "R6"] >>

Listings == { <<>>, OrgListing, AltListing }

DiscPatterns == { <<>>, <<"s">>, <<"1">>, <<"s", "1">>, <<"S">> }

\* "omitted" stands for an operator the selector does not carry.
DiscOperators == {"starts-with", "contains", "ends-with", "omitted"}

DiscSelectors ==
    { NamePattern(p, op) : p \in DiscPatterns, op \in DiscOperators }
    \cup { Explicit(n) : n \in { <<>>, <<Sdk1>>, <<Web, Sdk1>>, <<Sdk1, Sdk1>>, <<New>> } }
    \cup { ExplicitNoField, Unknown }

DiscSelectorLists ==
    { <<>> } \cup { <<a>> : a \in DiscSelectors }
             \cup { <<a, b>> : a \in DiscSelectors, b \in DiscSelectors }

LinkedChild ==
    [owner |-> "org1", repo |-> Sdk1, title |-> ChildTitle, body |-> ChildBody,
     state |-> "open", linked |-> TRUE]

DiscInit ==
    /\ repositories \in Listings
    /\ document = NoSource
    /\ remote \in { <<>>, <<LinkedChild>> }
    /\ runs = 1
    /\ pc = "discover"
    /\ settings = NoSettings
    /\ \E a \in Actions :
         event = [hasIssue |-> TRUE, labels |-> {"federated"}, action |-> a,
                  login |-> "alice", title |-> "T1", body |-> "B1"]
    /\ owner = "org1"
    /\ \E sels \in DiscSelectorLists :
         config = [users |-> {}, teams |-> <<>>, targetRepositorySelectors |-> sels]
    /\ answers = <<>>
    /\ authz = [fn |-> "index", granted |-> TRUE, lookups |-> <<>>]
    /\ repos = <<>>
    /\ parentNodeId = NoId
    /\ childIssues = <<>>
    /\ idx = 0
    /\ runReturned = FALSE
    /\ failed = FALSE
    /\ unhandled = FALSE
    /\ calls = <<>>
    /\ logs = <<>>

DiscNext ==
    \/ Discover
    \/ FetchParentNodeId
    \/ Dispatch
    \/ OpenedStep
    \/ EditedFetch
    \/ EditedStep
    \/ StatusFetch
    \/ StatusStep

DiscSpec == DiscInit /\ [][DiscNext]_vars

----------------------------------------------------------------------------
(* Reading the record of a run.                                             *)

CountCalls(log, op, repo) ==
    Cardinality({k \in 1..Len(log) : log[k].op = op /\ log[k].repo = repo})

CountOp(log, op) == Cardinality({k \in 1..Len(log) : log[k].op = op})

TargetOps ==
    {"listForOrg", "getIssueNodeId", "subIssues", "create", "addSubIssue",
     "update", "setState"}

NoTargetCalls(log) == \A k \in 1..Len(log) : log[k].op \notin TargetOps

\* The event of the current run does not pass the label gate.
GatedEvent == ~event.hasIssue \/ settings.requiredLabel \notin event.labels

\* The labeled handler of the current run was dispatched and has finished.
LabeledRunDone ==
    pc = "done" /\ event.action = "labeled" /\ parentNodeId = ParentId

\* Every call the labeled handler made succeeded.
HandlerCallsOk ==
    \A k \in 1..Len(calls) :
        calls[k].op \in {"create", "getIssueNodeId", "addSubIssue"} => calls[k].ok

\* The edited handler of the current run got its list of children and has finished.
EditedRunDone ==
    pc = "done" /\ event.action = "edited" /\ parentNodeId = ParentId /\ ~unhandled

----------------------------------------------------------------------------
(* Claims.                                                                  *)

\* C1: an event without issue payload, or whose issue lacks the required
\* label, ends the run at the gate as a no-op: no configuration is loaded, no
\* permission check and no discovery happen, no remote call is made (no comment,
\* no child created, updated or closed) and the remote issues stay as they were.
LabelGateIsNoOp ==
    /\ []((pc \notin {"idle", "gate"} /\ GatedEvent /\ ~failed) =>
            (pc = "done" /\ calls = <<>> /\ config = NoDoc /\ authz = NoAuthz
             /\ repos = <<>>))
    /\ [][(pc = "gate" /\ GatedEvent) =>
            (pc' = "done" /\ calls' = <<>> /\ remote' = remote /\ ~failed')]_vars

LabelGateWitness ==
    /\ pc = "done" /\ ~failed
    /\ event.hasIssue /\ settings.requiredLabel \notin event.labels
    /\ remote # <<>>

\* C2: when the permission check returns false for the issue author the run
\* ends there, whatever the event's action: discovery is not invoked and no
\* child issue is created, linked, updated or closed.
PermissionDeniedIsTerminal ==
    /\ []((pc \notin {"idle", "gate", "config", "perm"} /\ authz.fn = "index"
           /\ ~authz.granted) =>
            (pc = "done" /\ repos = <<>> /\ NoTargetCalls(calls)))
    /\ [][(pc = "perm" /\ ~authz'.granted) =>
            (pc' = "done" /\ remote' = remote /\ NoTargetCalls(calls'))]_vars

PermissionDeniedWitness ==
    /\ pc = "done" /\ authz.fn = "index" /\ ~authz.granted
    /\ event.action = "closed" /\ remote # <<>>

\* C3: for a policy with no users and no teams the permission check returns
\* true for any actor and owner, without a membership lookup.
OpenPolicyGrants ==
    (authz.fn # "none" /\ config.users = {} /\ config.teams = <<>>) =>
        (authz.granted /\ authz.lookups = <<>>)

\* C4: an actor listed in users is granted, whatever the membership lookups
\* of the listed teams would answer.
ListedUserGranted ==
    (authz.fn # "none" /\ event.login \in config.users) => authz.granted

ListedUserWitness ==
    /\ authz.fn = "permissions" /\ event.login \in config.users
    /\ Len(config.teams) = 2 /\ answers[1] = "error" /\ answers[2] = "pending"
    /\ authz.granted

\* C5: for an actor not in users, a listed team whose lookup answers active
\* grants; with teams listed and every lookup answering pending or not found,
\* the check returns false.
TeamRule ==
    (authz.fn = "permissions" /\ event.login \notin config.users) =>
        /\ (\E k \in 1..Len(config.teams) : answers[k] = "active") => authz.granted
        /\ (/\ Len(config.teams) > 0
            /\ \A k \in 1..Len(config.teams) : answers[k] \in {"pending", "notfound"})
           => ~authz.granted

TeamRuleWitness ==
    /\ authz.fn = "permissions" /\ event.login \notin config.users
    /\ Len(config.teams) = 2 /\ config.teams[2] = <<"org2", "t1">>
    /\ answers[1] = "pending" /\ answers[2] = "active"
    /\ authz.granted

\* C6: a membership lookup that fails (not found, or any other error) does not
\* end the check: every team up to the first active one is looked up, so an
\* active team after failing ones grants, and with every lookup failing the
\* check looks up every team and returns false.
LookupFailureContinues ==
    (authz.fn = "permissions" /\ event.login \notin config.users
     /\ Len(config.teams) > 0) =>
        /\ \A k \in 1..Len(config.teams) :
             (/\ answers[k] = "active"
              /\ \A j \in 1..(k - 1) : answers[j] \in {"notfound", "error"})
             => (authz.granted /\ Len(authz.lookups) = k)
        /\ (\A k \in 1..Len(config.teams) : answers[k] \in {"notfound", "error"})
           => (~authz.granted /\ Len(authz.lookups) = Len(config.teams))

LookupFailureWitness ==
    /\ authz.fn = "permissions" /\ event.login \notin config.users
    /\ Len(config.teams) = 2
    /\ answers[1] = "error" /\ answers[2] = "active"
    /\ authz.granted /\ Len(authz.lookups) = 2

\* C7: with a non-empty allow-list the check grants only an actor listed in
\* users or one for whom some team lookup answered active.
AllowListExclusive ==
    (authz.fn # "none" /\ (config.users # {} \/ config.teams # <<>>)
     /\ authz.granted) =>
        \/ event.login \in config.users
        \/ \E k \in 1..Len(answers) : answers[k] = "active"

\* C8: in a labeled run whose calls all succeed, every resolved target gets
\* exactly one create call and exactly one link call (n targets, n creates,
\* n links) and every child created by the run ends linked to the parent.
LabeledAllSucceed ==
    (LabeledRunDone /\ HandlerCallsOk) =>
        /\ \A r \in 1..Len(repos) :
             /\ CountCalls(calls, "create", repos[r].name) = 1
             /\ CountCalls(calls, "addSubIssue", repos[r].name) = 1
        /\ CountOp(calls, "create") = Len(repos)
        /\ CountOp(calls, "addSubIssue") = Len(repos)
        /\ \A k \in 1..Len(calls) :
             calls[k].op = "create" => remote[calls[k].num].linked

LabeledAllSucceedWitness ==
    /\ LabeledRunDone /\ HandlerCallsOk
    /\ Len(repos) = 2 /\ CountOp(calls, "addSubIssue") = 2
    /\ Len(remote) = 2 /\ remote[1].linked /\ remote[2].linked

\* C9: in a labeled run every resolved target gets exactly one create attempt,
\* in target order, whichever creates and links of the other targets fail, and
\* the run is not failed by them.
CreateFailureIsolated ==
    LabeledRunDone =>
        /\ \A r \in 1..Len(repos) : CountCalls(calls, "create", repos[r].name) = 1
        /\ CountOp(calls, "create") = Len(repos)
        /\ ~failed

CreateFailureWitness ==
    /\ LabeledRunDone /\ Len(repos) = 2
    /\ \E j \in 1..Len(calls) : \E k \in 1..Len(calls) :
         /\ j < k
         /\ calls[j].op = "create" /\ calls[j].repo = repos[1].name /\ ~calls[j].ok
         /\ calls[k].op = "addSubIssue" /\ calls[k].repo = repos[2].name /\ calls[k].ok

\* C10: in an edited run every child the linked-children query returned gets
\* exactly one update call, that call carrying the parent's title and body,
\* whichever other updates fail.
EditedUpdatesCarryParentContent ==
    EditedRunDone =>
        \A c \in 1..Len(childIssues) :
            /\ Cardinality({k \in 1..Len(calls) :
                    calls[k].op = "update" /\ calls[k].num = childIssues[c].number}) = 1
            /\ \A k \in 1..Len(calls) :
                 (calls[k].op = "update" /\ calls[k].num = childIssues[c].number) =>
                    (calls[k].title = event.title
                     /\ calls[k].body = issueDetails(event).body)

\* The part of C10 about the calls alone: one update attempt per returned child.
EditedUpdatesEachOnce ==
    EditedRunDone =>
        /\ \A c \in 1..Len(childIssues) :
             Cardinality({k \in 1..Len(calls) :
                 calls[k].op = "update" /\ calls[k].num = childIssues[c].number}) = 1
        /\ CountOp(calls, "update") = Len(childIssues)

EditedUpdatesEachOnceWitness ==
    /\ EditedRunDone /\ Len(childIssues) = 2
    /\ \E j \in 1..Len(calls) : \E k \in 1..Len(calls) :
         /\ j < k
         /\ calls[j].op = "update" /\ ~calls[j].ok
         /\ calls[k].op = "update" /\ calls[k].ok

\* The closed handler of the current run got its list of children and has finished.
ClosedRunDone ==
    /\ pc = "done" /\ event.action = "closed" /\ parentNodeId = ParentId
    /\ settings.closeIssuesOnParentClose /\ ~unhandled

\* The calls of the log that create, link, look up, update or close child issues.
ChildOps == {"create", "addSubIssue", "subIssues", "update", "setState"}

NoChildCalls(log) == \A k \in 1..Len(log) : log[k].op \notin ChildOps

CloseDisabledWitness ==
    /\ pc = "done" /\ event.action = "closed" /\ parentNodeId = ParentId
    /\ ~settings.closeIssuesOnParentClose
    /\ \E n \in 1..Len(remote) : remote[n].linked /\ remote[n].state = "open"

\* C12: a run whose action is not labeled, edited or closed makes no call that
\* creates, links, looks up, updates or closes a child issue, and leaves the
\* remote issues as they were, also when the issue carries the required label
\* and the author is authorized.
UnhandledActionIsNoOp ==
    /\ [](event.action \notin {"labeled", "edited", "closed"} => NoChildCalls(calls))
    /\ [][event.action \notin {"labeled", "edited", "closed"} => remote' = remote]_vars

UnhandledActionWitness ==
    /\ pc = "done" /\ event.action = "unlabeled"
    /\ settings.requiredLabel \in event.labels /\ authz.granted
    /\ parentNodeId = ParentId /\ runReturned /\ ~failed
    /\ \E n \in 1..Len(remote) : remote[n].linked /\ remote[n].state = "open"

\* The calls of a handler that failed, by phase: the create phase covers the
\* create, the fetch of the child's node ID and the link.
FailedCreatePhase(log) ==
    {k \in 1..Len(log) :
        /\ ~log[k].ok
        /\ \/ log[k].op \in {"create", "addSubIssue"}
           \/ log[k].op = "getIssueNodeId" /\ log[k].repo # <<>>}

FailedUpdatePhase(log) ==
    {k \in 1..Len(log) : ~log[k].ok /\ log[k].op \in {"update", "setState"}}

CountLevel(lines, level) ==
    Cardinality({k \in 1..Len(lines) : lines[k].level = level})

\* C13: once a run has reached its handler, no failure of a child create, link,
\* update or close fails the run (setFailed is not called), whatever subset of
\* them fails; each failure in the create phase gives one log line at error
\* severity, each failure in the update and close phases one at warning severity.
PerTargetFailuresNeverFailRun ==
    parentNodeId = ParentId =>
        /\ ~failed
        /\ CountLevel(logs, "failed") = 0
        /\ CountLevel(logs, "error") = Cardinality(FailedCreatePhase(calls))
        /\ CountLevel(logs, "warning") = Cardinality(FailedUpdatePhase(calls))

PerTargetFailuresWitness ==
    /\ pc = "done" /\ event.action = "labeled" /\ parentNodeId = ParentId
    /\ Len(repos) = 2 /\ ~failed
    /\ \E j \in FailedCreatePhase(calls) : \E k \in FailedCreatePhase(calls) :
         calls[j].op = "create" /\ calls[k].op = "addSubIssue"
    /\ CountLevel(logs, "error") = 2

\* The update and close half of C13 happens: a handler ends with every update
\* of two children having failed.
UpdateFailuresWitness ==
    /\ pc = "done" /\ event.action = "edited" /\ parentNodeId = ParentId
    /\ Cardinality(FailedUpdatePhase(calls)) = 2 /\ CountLevel(logs, "warning") = 2
    /\ ~failed

\* The document getContent answered is a JSON file the schema accepts: every
\* selector is a name-pattern one or an explicit one with its repositories.
DocumentAccepted ==
    /\ document.kind = "file"
    /\ \A k \in 1..Len(document.doc.targetRepositorySelectors) :
         LET sel == document.doc.targetRepositorySelectors[k]
         IN  /\ sel.method \in {"name-pattern", "explicit"}
             /\ sel.method = "explicit" => sel.hasRepositories

\* C14: when the configuration document is absent, a directory, without
\* content, not JSON or rejected by the schema, the run ends at the load with
\* one top-level failure 'Failed to load configuration': its only remote call is
\* the getContent, so no membership lookup, listing, comment or child-issue
\* operation happens, and no permission check or discovery result exists.
ConfigErrorIsFatal ==
    (document.kind # "none" /\ ~DocumentAccepted) =>
        /\ pc = "done" /\ failed
        /\ logs = <<Log("failed", "Failed to load configuration")>>
        /\ Len(calls) = 1 /\ calls[1].op = "getContent"
        /\ config = NoDoc /\ authz = NoAuthz /\ repos = <<>>

ConfigErrorWitness ==
    /\ pc = "done" /\ failed /\ document.kind = "file"
    /\ document.doc.targetRepositorySelectors = <<Unknown>>
    /\ document.doc.users = {} /\ document.doc.teams = <<>>
    /\ event.action = "labeled" /\ remote # <<>>

\* The other causes of C14 happen: the document is absent, or has no content.
ConfigAbsentWitness ==
    pc = "done" /\ failed /\ document.kind \in {"missing", "empty"} /\ remote # <<>>

----------------------------------------------------------------------------
(* What a selector list is to resolve to, stated on the names themselves.   *)

IsPrefix(p, name) ==
    Len(p) <= Len(name) /\ \A i \in 1..Len(p) : name[i] = p[i]

IsSuffix(p, name) ==
    Len(p) <= Len(name) /\ \A i \in 1..Len(p) : name[Len(name) - Len(p) + i] = p[i]

IsInfix(p, name) ==
    \E d \in 0..(Len(name) - Len(p)) : \A i \in 1..Len(p) : name[d + i] = p[i]

\* The candidates' names a name-pattern selector is to produce; contains is
\* the mode of a selector that carries none.
PatternNames(sel, candidates) ==
    {candidates[k].name : k \in
        {j \in 1..Len(candidates) :
            CASE sel.operator = "starts-with" -> IsPrefix(sel.pattern, candidates[j].name)
              [] sel.operator = "ends-with" -> IsSuffix(sel.pattern, candidates[j].name)
              [] OTHER -> IsInfix(sel.pattern, candidates[j].name)}}

\* The names a selector is to produce on its own.
SelectorNames(sel, candidates) ==
    IF sel.method = "name-pattern"
    THEN PatternNames(sel, candidates)
    ELSE IF sel.method = "explicit" /\ sel.hasRepositories
    THEN {sel.repositories[k] : k \in 1..Len(sel.repositories)}
    ELSE {}

Selectors == config.targetRepositorySelectors

ReposNames == {repos[k].name : k \in 1..Len(repos)}

\* The resolution of the current run has been made and did not throw.
Resolved ==
    /\ pc # "discover"
    /\ ~(failed /\ CountOp(calls, "getIssueNodeId") = 0)

\* C15: for a single name-pattern selector whose listing call succeeded, the
\* resolved repositories are exactly the candidates whose name starts with,
\* contains or ends with the identifier according to the match mode, letter
\* case counting, contains being the mode when none is given: each matching
\* candidate once, under the parent's owner, and no other.
NamePatternExact ==
    (Resolved /\ Len(Selectors) = 1 /\ Selectors[1].method = "name-pattern") =>
        /\ ReposNames = PatternNames(Selectors[1], repositories)
        /\ Len(repos) = Cardinality(PatternNames(Selectors[1], repositories))
        /\ \A k \in 1..Len(repos) : repos[k].owner = owner

NamePatternWitness ==
    /\ Resolved /\ Selectors = <<NamePattern(<<"s">>, "omitted")>>
    /\ repositories = AltListing
    /\ ReposNames = {<<"1", "s">>, <<"x", "s", "1">>}

\* C16: resolving a list made only of explicit selectors calls the lister
\* zero times, does not throw, and yields one repository per distinct listed
\* name under the parent's owner; an explicit selector with an empty or absent
\* repositories field contributes nothing.
ExplicitNeverLists ==
    (pc # "discover" /\ \A k \in 1..Len(Selectors) : Selectors[k].method = "explicit") =>
        /\ CountOp(calls, "listForOrg") = 0
        /\ Resolved
        /\ ReposNames = UNION {SelectorNames(Selectors[k], repositories) : k \in 1..Len(Selectors)}
        /\ Len(repos) = Cardinality(ReposNames)
        /\ \A k \in 1..Len(repos) : repos[k].owner = owner

ExplicitNeverListsWitness ==
    /\ pc \notin {"discover", "done"}
    /\ Selectors = <<ExplicitNoField, Explicit(<<Web, Sdk1>>)>>
    /\ repos = << [owner |-> owner, name |-> Web, nodeId |-> NoNodeId],
                  [owner |-> owner, name |-> Sdk1, nodeId |-> NoNodeId] >>
    /\ calls = <<>>

\* An explicit selector without names resolves to nothing, without error.
ExplicitEmptyWitness ==
    /\ pc = "done" /\ ~failed /\ Selectors = <<ExplicitNoField, Explicit(<<>>)>>
    /\ repos = <<>> /\ calls = <<>>

\* C17: for every selector list whose resolution did not throw, no two
\* resolved repositories have the same name, and the resolved names are the
\* union of the names the selectors produce one by one.
DedupByName ==
    Resolved =>
        /\ \A i \in 1..Len(repos) : \A j \in 1..Len(repos) :
             repos[i].name = repos[j].name => i = j
        /\ Len(repos) = Cardinality(ReposNames)
        /\ ReposNames = UNION {SelectorNames(Selectors[k], repositories) : k \in 1..Len(Selectors)}

DedupByNameWitness ==
    /\ Resolved /\ repositories = OrgListing
    /\ Selectors = <<NamePattern(<<"s">>, "starts-with"), Explicit(<<Web, Sdk1>>)>>
    /\ Len(repos) = 3 /\ ReposNames = {Sdk1, Sdk2, Web}

\* C18: a selector list holding a selector of an unrecognized tag makes the
\* resolution throw: the caller gets no repository, not those of the valid
\* selectors either, the run ends there with one top-level failure, and no
\* child issue is created, linked, looked up, updated or closed.
UnsupportedSelectorFails ==
    /\ []((pc # "discover" /\ \E k \in 1..Len(Selectors) :
                Selectors[k].method \notin {"name-pattern", "explicit"}) =>
            /\ pc = "done" /\ failed /\ repos = <<>>
            /\ CountLevel(logs, "failed") = 1
            /\ NoChildCalls(calls) /\ CountOp(calls, "getIssueNodeId") = 0)
    /\ [][(\E k \in 1..Len(Selectors) :
                Selectors[k].method \notin {"name-pattern", "explicit"}) =>
            remote' = remote]_vars

UnsupportedSelectorWitness ==
    /\ pc = "done" /\ failed /\ repos = <<>>
    /\ Selectors = <<NamePattern(<<"s">>, "starts-with"), Unknown>>
    /\ repositories = OrgListing /\ event.action = "labeled"
    /\ calls = <<Call("listForOrg", <<>>, 1, "", "", TRUE)>>

\* C19: a resolution that matches nothing returns the empty list without
\* error, and the run of an authorized author then ends with the warning 'No
\* target repositories found', whatever the action: the parent's node ID is not
\* fetched, the linked children are not queried, no child issue is created,
\* linked, updated or closed, and the run is not failed.
EmptyTargetsEndRun ==
    /\ []((authz.granted /\ ~failed /\ repos = <<>>
            /\ pc \notin {"idle", "gate", "config", "perm", "discover"}) =>
            /\ pc = "done"
            /\ logs # <<>> /\ logs[Len(logs)] = Log("warning", "No target repositories found")
            /\ CountOp(calls, "getIssueNodeId") = 0
            /\ NoChildCalls(calls))
    /\ [][(pc = "discover"
            /\ (\A k \in 1..Len(Selectors) : SelectorNames(Selectors[k], repositories) = {})
            /\ (\A j \in 1..Len(calls') : calls'[j].ok)) =>
            (repos' = <<>> /\ ~failed' /\ pc' = "done" /\ remote' = remote)]_vars

EmptyTargetsWitness ==
    /\ pc = "done" /\ authz.granted /\ ~failed /\ repos = <<>>
    /\ Selectors = <<NamePattern(<<"q">>, "contains")>>
    /\ event.action = "closed" /\ settings.closeIssuesOnParentClose
    /\ CountOp(calls, "listForOrg") = 1
    /\ \E n \in 1..Len(remote) : remote[n].linked /\ remote[n].state = "open"

\* The empty resolution also ends a labeled run.
EmptyTargetsLabeledWitness ==
    /\ pc = "done" /\ authz.granted /\ ~failed /\ repos = <<>>
    /\ Selectors = <<Explicit(<<>>)>> /\ event.action = "labeled"

\* C20: a run posts a comment on the parent issue exactly when its permission
\* check returned false and notify-missing-permissions is enabled, and then
\* exactly one; a denied run with the notification disabled, and every run on
\* another path, posts none.
DeniedNotification ==
    CountOp(calls, "createComment") =
        IF authz.fn = "index" /\ ~authz.granted /\ settings.notifyMissingPermissions
        THEN 1 ELSE 0

DeniedNotificationWitness ==
    /\ pc = "done" /\ authz.fn = "index" /\ ~authz.granted
    /\ ~settings.notifyMissingPermissions
    /\ CountOp(calls, "createComment") = 0 /\ ~failed
    /\ CountLevel(logs, "warning") = 1

\* The enabled half of C20 happens: the denied run posted its one comment.
DeniedNotifiedWitness ==
    /\ pc = "done" /\ authz.fn = "index" /\ ~authz.granted
    /\ settings.notifyMissingPermissions
    /\ calls[Len(calls)].op = "createComment" /\ calls[Len(calls)].ok /\ ~failed

----------------------------------------------------------------------------
(* Claims on the issue operations.                                          *)

\* The numbers of the remote child issues linked to the parent.
LinkedNumbers == {n \in 1..Len(remote) : remote[n].linked}

\* The reference the linked-children query is to return for remote child n.
RefOf(n) ==
    [owner |-> remote[n].owner, repo |-> remote[n].repo, number |-> n,
     nodeId |-> ChildId(n)]

\* The children the current run made an update or a close call for.
TouchedNumbers ==
    {calls[k].num : k \in {j \in 1..Len(calls) : calls[j].op \in {"update", "setState"}}}

\* C21: every create call and every update call carries the title and body of
\* the issue content the operation was given, the parent's current content;
\* a create call targets a resolved repository under its owner, an update call
\* the owner, repository and number of a child the lookup returned.
ContentPropagation ==
    \A k \in 1..Len(calls) :
        /\ calls[k].op \in {"create", "update"} =>
              /\ calls[k].title = event.title
              /\ calls[k].body = (IF event.body = NullBody THEN "" ELSE event.body)
        /\ calls[k].op = "create" =>
              \E r \in 1..Len(repos) : repos[r].name = calls[k].repo
        /\ calls[k].op = "update" =>
              \E c \in 1..Len(childIssues) :
                  /\ childIssues[c].repo = calls[k].repo
                  /\ childIssues[c].number = calls[k].num

\* The part of C21 about the targets alone holds.
CallTargetsExact ==
    \A k \in 1..Len(calls) :
        /\ calls[k].op = "create" =>
              \E r \in 1..Len(repos) : repos[r].name = calls[k].repo
        /\ calls[k].op = "update" =>
              \E c \in 1..Len(childIssues) :
                  /\ childIssues[c].repo = calls[k].repo
                  /\ childIssues[c].number = calls[k].num
                  /\ remote[calls[k].num].repo = calls[k].repo

CallTargetsWitness ==
    /\ pc = "done" /\ event.action = "edited" /\ CountOp(calls, "update") = 2
    /\ childIssues[1].repo = Sdk1 /\ childIssues[2].repo = Sdk2

\* C22: whenever the remote answers the linked-children query, the query
\* returns to its caller one reference {owner, repo, number, nodeId} per
\* sub-issue of the parent, in the order of the answer, and the empty list
\* when the parent has none.
LinkedChildrenQuery ==
    (\E k \in 1..Len(calls) : calls[k].op = "subIssues" /\ calls[k].ok) =>
        /\ ~unhandled
        /\ Len(childIssues) = Cardinality(LinkedNumbers)
        /\ \A c \in 1..Len(childIssues) :
             /\ childIssues[c].number \in LinkedNumbers
             /\ childIssues[c] = RefOf(childIssues[c].number)
             /\ \A d \in 1..(c - 1) : childIssues[d].number < childIssues[c].number

\* C23: an edited run, and a closed run with close-propagation enabled, whose
\* linked-children query the remote answered makes its update or close calls
\* for exactly the children linked to the parent in the remote graph at that
\* time, links made by earlier runs included.
DerivedLinkState ==
    (/\ pc = "done" /\ parentNodeId = ParentId
     /\ event.action \in {"edited", "closed"}
     /\ \E k \in 1..Len(calls) : calls[k].op = "subIssues" /\ calls[k].ok) =>
        TouchedNumbers = LinkedNumbers

\* The part of C23 that holds: when the query returned a list to the handler,
\* the children of the run are those linked remotely then, whatever earlier
\* runs did, and nothing of a run is kept for the next.
DerivedLinkStateWhenReturned ==
    /\ [](((EditedRunDone \/ ClosedRunDone)) => TouchedNumbers = LinkedNumbers)
    /\ [][pc' = "idle" => (childIssues' = <<>> /\ repos' = <<>> /\ parentNodeId' = NoId)]_vars

DerivedLinkStateWitness ==
    /\ EditedRunDone /\ runs = 2 /\ Len(remote) = 2
    /\ remote[1].linked /\ ~remote[2].linked
    /\ TouchedNumbers = {1}

----------------------------------------------------------------------------
(* Templates of the child title and body. A template is the sequence of its *)
(* pieces, a piece being a placeholder or literal text.                     *)

TitlePlaceholder == "${{ github.event.issue.title }}"
BodyPlaceholder == "${{ github.event.issue.body }}"

\* The defaults of the inputs child-issue-title and child-issue-body.
DefaultTitleTemplate == <<TitlePlaceholder>>
DefaultBodyTemplate == <<BodyPlaceholder>>

\* Literal replacement of the two placeholders, every other piece verbatim.
Render(template, parent) ==
    [i \in 1..Len(template) |->
        CASE template[i] = TitlePlaceholder -> parent.title
          [] template[i] = BodyPlaceholder -> parent.body
          [] OTHER -> template[i]]

\* C24: the title and body a child issue is created with are the configured
\* templates with the title placeholder and the body placeholder replaced by
\* the parent's title and body; the run having the default templates, they are
\* the parent's title and body.
TemplateSubstitution ==
    \A k \in 1..Len(calls) :
        (calls[k].op = "create" /\ calls[k].ok) =>
            /\ <<remote[calls[k].num].title>> =
                  Render(DefaultTitleTemplate, issueDetails(event))
            /\ <<remote[calls[k].num].body>> =
                  Render(DefaultBodyTemplate, issueDetails(event))


----------------------------------------------------------------------------
(* Order of the stages of one run.                                          *)

\* The stage of run() a remote call belongs to: policy load, permission check
\* (with its notification), resolution, parent node id, child operations.
StageOfCall(c) ==
    CASE c.op = "getContent" -> 2
      [] c.op \in {"getMembership", "createComment"} -> 3
      [] c.op = "listForOrg" -> 4
      [] c.op = "getIssueNodeId" /\ c.repo = <<>> -> 5
      [] OTHER -> 6

\* C25: the remote calls of a run are made in the order policy load, permission
\* check, repository resolution, child operations, and none at all unless the
\* event passed the label gate; a call of the child-operation stage (create,
\* link, linked-children query, update, close) is made only after the policy
\* document was fetched and accepted, the permission check granted, and the
\* resolution returned at least one repository, all in the same run.
StageOrdering ==
    /\ \A j \in 1..Len(calls), k \in 1..Len(calls) :
          j < k => StageOfCall(calls[j]) <= StageOfCall(calls[k])
    /\ calls # <<>> => event.hasIssue /\ settings.requiredLabel \in event.labels
    /\ \A k \in 1..Len(calls) :
          StageOfCall(calls[k]) = 6 =>
             /\ calls[1].op = "getContent" /\ calls[1].ok
             /\ config # NoDoc /\ config = document.doc
             /\ authz # NoAuthz /\ authz.granted
             /\ Len(repos) > 0
             /\ CountOp(calls, "createComment") = 0
             /\ \E j \in 1..(k - 1) : StageOfCall(calls[j]) = 5 /\ calls[j].ok

\* A child is created in a run that looked up a team and listed the
\* organization's repositories before.
StageOrderingWitness ==
    /\ \E k \in 1..Len(calls) : calls[k].op = "create" /\ calls[k].ok
    /\ CountOp(calls, "getMembership") > 0
    /\ CountOp(calls, "listForOrg") > 0


----------------------------------------------------------------------------
(* The membership lookups of one permission check.                          *)

\* C26: the lookups of a permission check are those of the first entries of
\* the team list, one per entry and in the order of the list; there are never
\* more lookups than listed teams, and no lookup is made after one that
\* answered active (every lookup but the last answered something else).
ShortCircuitOnActive ==
    pc = "checked" =>
       /\ Len(authz.lookups) <= Len(config.teams)
       /\ Len(calls) = Len(authz.lookups)
       /\ \A k \in 1..Len(calls) : calls[k].op = "getMembership" /\ calls[k].num = k
       /\ \A k \in 1..Len(authz.lookups) :
             /\ authz.lookups[k].team_slug = config.teams[k][Len(config.teams[k])]
             /\ authz.lookups[k].username = event.login
       /\ \A k \in 1..(Len(authz.lookups) - 1) : answers[k] # "active"

\* The first of two listed teams answers active and only it was looked up.
ShortCircuitOnActiveWitness ==
    /\ pc = "checked"
    /\ authz.fn = "permissions"
    /\ Len(config.teams) = 2
    /\ answers[1] = "active"
    /\ Len(authz.lookups) = 1
    /\ authz.granted

\* C27: a listed team written as an organization and a slug around one
\* separator is looked up in that organization under that slug; a bare entry
\* is looked up in the organization owning the parent repository, under the
\* whole entry as slug.
TeamReferenceResolution ==
    pc = "checked" =>
       \A k \in 1..Len(authz.lookups) :
          LET entry == config.teams[k]
              lookup == authz.lookups[k]
          IN  /\ Len(entry) = 2 => lookup.org = entry[1] /\ lookup.team_slug = entry[2]
              /\ Len(entry) = 1 => lookup.org = owner /\ lookup.team_slug = entry[1]

\* A check looked up a bare entry and then an entry naming another organization.
TeamReferenceResolutionWitness ==
    /\ pc = "checked"
    /\ Len(authz.lookups) = 2
    /\ Len(config.teams[1]) = 1
    /\ Len(config.teams[2]) = 2
    /\ config.teams[2][1] # owner

\* C28: a permission check changes nothing but its own result: the remote
\* issues, the logs and the failure flag are as before it, and the only remote
\* calls it makes are membership lookups (no comment, no issue created, updated
\* or closed); its result is a function of the policy, the actor, the owner and
\* the lookup answers alone: granted exactly when the rule that applies to
\* these four holds.
PermissionCheckIsPure ==
    /\ [](pc = "checked" =>
            /\ \A k \in 1..Len(calls) : calls[k].op = "getMembership"
            /\ authz.fn = "permissions" =>
                 (authz.granted <=>
                     \/ config.users = {} /\ config.teams = <<>>
                     \/ event.login \in config.users
                     \/ \E k \in 1..Len(config.teams) : answers[k] = "active")
            /\ authz.fn = "index" =>
                 (authz.granted <=>
                     \/ owner = event.login
                     \/ event.login \in config.users
                     \/ \E k \in 1..Len(config.teams) : answers[k] = "active"))
    /\ [][pc = "check" =>
            /\ remote' = remote
            /\ logs' = logs
            /\ failed' = failed
            /\ <<config, event, owner, answers>>' = <<config, event, owner, answers>>
            /\ Len(calls') <= Len(config.teams)]_vars

\* The exported check denied an actor after two lookups, and nothing else was
\* called.
PermissionCheckIsPureWitness ==
    /\ pc = "checked"
    /\ authz.fn = "permissions"
    /\ ~authz.granted
    /\ Len(calls) = 2
    /\ answers[1] = "error"


----------------------------------------------------------------------------
(* The listing calls of a resolution and the records it returns.            *)

\* The positions of the name-pattern selectors in the selector list.
NamePatternPositions == {k \in 1..Len(Selectors) : Selectors[k].method = "name-pattern"}

\* C29: a resolution that returns has listed the organization's repositories
\* exactly once per name-pattern selector of the list, one call after the
\* other, and not at all for the explicit selectors; a resolution that throws
\* has made no more listing calls than that.
ListerCallCount ==
    pc # "discover" =>
       /\ CountOp(calls, "listForOrg") <= Cardinality(NamePatternPositions)
       /\ Resolved => CountOp(calls, "listForOrg") = Cardinality(NamePatternPositions)
       /\ \A k \in 1..CountOp(calls, "listForOrg") :
             calls[k].op = "listForOrg" /\ calls[k].num = k

\* A list of two name-pattern selectors was resolved with two listing calls.
ListerCallCountWitness ==
    /\ Resolved
    /\ Len(Selectors) = 2
    /\ Cardinality(NamePatternPositions) = 2
    /\ CountOp(calls, "listForOrg") = 2

\* A name-pattern selector and an explicit one were resolved with one listing call.
ListerCallCountMixedWitness ==
    /\ Resolved
    /\ Len(Selectors) = 2
    /\ Selectors[1].method = "explicit" /\ Selectors[1].repositories # <<>>
    /\ Selectors[2].method = "name-pattern"
    /\ CountOp(calls, "listForOrg") = 1

\* The selector list in the opposite order.
Reverse(s) == [k \in 1..Len(s) |-> s[Len(s) + 1 - k]]

\* What resolving the selectors in the opposite order returns, the listing
\* being the same.
ReversedRepos ==
    discoverRepositories([config EXCEPT !.targetRepositorySelectors = Reverse(Selectors)],
                         owner, repositories, TRUE).list

\* The records of a list without their node id.
OwnerAndName(list) == {[owner |-> list[k].owner, name |-> list[k].name] : k \in 1..Len(list)}

Records(list) == {list[k] : k \in 1..Len(list)}

\* C30 as stated: the set of repository records (owner, name and node id) a
\* resolution returns is the same when the selectors are taken in the opposite
\* order.
SelectorOrderIndependence ==
    Resolved => Records(repos) = Records(ReversedRepos)

\* C30: the set of (owner, name) pairs a resolution returns is the same when
\* the selectors are taken in the opposite order; a returned record carries the
\* node id of the listing for its name or none, and which of the two is decided
\* by the last selector that produced the name.
SelectorOrderIndependentNames ==
    Resolved =>
       /\ OwnerAndName(repos) = OwnerAndName(ReversedRepos)
       /\ Len(ReversedRepos) = Len(repos)
       /\ \A k \in 1..Len(repos) :
             \/ repos[k].nodeId = NoNodeId
             \/ \E r \in 1..Len(repositories) :
                   repositories[r].name = repos[k].name /\ repositories[r].node_id = repos[k].nodeId

\* A name-pattern selector and an explicit one produced the same name, and
\* the record returned differs from the one the opposite order returns.
SelectorOrderIndependentNamesWitness ==
    /\ Resolved
    /\ Len(Selectors) = 2
    /\ Selectors[1].method = "name-pattern"
    /\ Selectors[2].method = "explicit"
    /\ \E k \in 1..Len(repos) :
          /\ repos[k].nodeId = NoNodeId
          /\ \E j \in 1..Len(ReversedRepos) :
                ReversedRepos[j].name = repos[k].name /\ ReversedRepos[j].nodeId # NoNodeId


----------------------------------------------------------------------------
(* Selectors with an empty identifier.                                      *)

\* The selectors of the list that can contribute under the rule "an empty
\* identifier produces nothing".
NonEmptySelectors ==
    {k \in 1..Len(Selectors) :
        ~(Selectors[k].method = "name-pattern" /\ Selectors[k].pattern = <<>>)}

\* C31: a name-pattern selector whose identifier is the empty string
\* contributes no repository: whatever the match mode and the listing, the
\* resolved names are those the other selectors of the list produce.
EmptyIdentifierNoResults ==
    Resolved =>
       ReposNames = UNION {SelectorNames(Selectors[k], repositories) : k \in NonEmptySelectors}

\* The only selector has an empty identifier and every repository of the
\* listing was resolved.
EmptyIdentifierMatchesAll ==
    /\ Resolved
    /\ Len(Selectors) = 1
    /\ Selectors[1].method = "name-pattern" /\ Selectors[1].pattern = <<>>
    /\ repositories # <<>>
    /\ Len(repos) = Len(repositories)


----------------------------------------------------------------------------
(* Linked children and the resolved targets.                                *)

\* The calls of the current run that update or close a child.
TouchCalls == {k \in 1..Len(calls) : calls[k].op \in {"update", "setState"}}

\* C32 as stated: an update or close call is made only on a child whose
\* repository is among the repositories resolved in this run.
StaleLinksUntouched ==
    \A k \in TouchCalls : calls[k].repo \in ReposNames

\* C32: in an edited run, and in a closed run with close-propagation enabled,
\* whose linked-children query returned, every child linked to the parent gets
\* its update or close call, also a child whose repository is not among the
\* repositories resolved in this run; the resolved targets only have to be
\* non-empty for the run to get that far.
LinkedChildrenTouchedWhateverTargets ==
    (/\ pc = "done"
     /\ event.action \in {"edited", "closed"}
     /\ ~unhandled
     /\ \E k \in 1..Len(calls) : calls[k].op = "subIssues" /\ calls[k].ok) =>
        /\ Len(repos) > 0
        /\ \A n \in LinkedNumbers : \E k \in TouchCalls :
              calls[k].num = n /\ calls[k].repo = remote[n].repo
        /\ \A k \in TouchCalls : calls[k].num \in LinkedNumbers

\* A linked child in a repository that this run did not resolve was updated.
StaleLinkTouchedWitness ==
    /\ pc = "done"
    /\ event.action = "edited"
    /\ \E k \in TouchCalls :
          /\ calls[k].ok
          /\ calls[k].repo \notin ReposNames
          /\ remote[calls[k].num].linked


----------------------------------------------------------------------------
(* Children whose link failed.                                              *)

\* The children that exist without being linked to the parent.
OrphanNumbers == {n \in 1..Len(remote) : ~remote[n].linked}

\* C33: a child created by a run whose link step failed stays as it was
\* created, unlinked and open: no step deletes, closes, updates or links it
\* later, a run makes at most one link call per child, no run holds a
\* reference to it among the children it visits, and no update or close call
\* of any run is for it.
OrphanOnLinkFailure ==
    /\ [](/\ \A k \in TouchCalls : calls[k].num \notin OrphanNumbers
          /\ \A c \in 1..Len(childIssues) : childIssues[c].number \notin OrphanNumbers
          /\ \A n \in 1..Len(remote) :
                Cardinality({k \in 1..Len(calls) :
                                calls[k].op = "addSubIssue" /\ calls[k].num = n}) <= 1
          /\ \A k \in 1..Len(calls) :
                (calls[k].op = "addSubIssue" /\ ~calls[k].ok) => calls[k].num \in OrphanNumbers)
    /\ [][/\ Len(remote') >= Len(remote)
          /\ \A n \in OrphanNumbers : remote'[n] = remote[n]]_vars

\* A later edited run for the same parent has updated the linked child and
\* made no call for the child whose link had failed.
OrphanOnLinkFailureWitness ==
    /\ runs = 2
    /\ pc = "done"
    /\ event.action = "edited"
    /\ CountOp(calls, "subIssues") = 1
    /\ ~unhandled
    /\ OrphanNumbers # {}
    /\ \E k \in TouchCalls : calls[k].ok


----------------------------------------------------------------------------
(* The issue operations that take node ids, on their own, over every        *)
(* bounded pair of ids, also ids that are empty or not strings.             *)

IdValues == NonStringIds \cup {NoId, ParentId, ChildId(1), ChildId(2)}

UnlinkedChild == [LinkedChild EXCEPT !.linked = FALSE]

ClosedChild == [LinkedChild EXCEPT !.state = "closed"]

\* A parent with one linked child more than a page of the query holds.
ManyChildren == [n \in 1..(PageSize + 1) |-> LinkedChild]

IdRemotes ==
    { <<>>, <<UnlinkedChild>>, <<LinkedChild>>, <<LinkedChild, UnlinkedChild>>,
      <<ClosedChild>>, ManyChildren }

\* The number of the issue an id names, 0 when it names none.
IssueOfId(id, rem) ==
    IF \E n \in 1..Len(rem) : id = ChildId(n)
    THEN CHOOSE n \in 1..Len(rem) : id = ChildId(n)
    ELSE 0

IdInit ==
    /\ repositories = OrgListing
    /\ document = NoSource
    /\ remote \in IdRemotes
    /\ runs = 0
    /\ pc = "apply"
    /\ settings = NoSettings
    /\ event = NoEvent
    /\ owner = "org1"
    /\ config = NoDoc
    /\ answers = <<>>
    /\ authz = NoAuthz
    /\ repos = <<>>
    /\ parentNodeId \in IdValues
    /\ \E cid \in IdValues :
         childIssues = <<[owner |-> "org1", repo |-> Sdk1, number |-> 0, nodeId |-> cid]>>
    /\ idx = 0
    /\ runReturned = FALSE
    /\ failed = FALSE
    /\ unhandled = FALSE
    /\ calls = <<>>
    /\ logs = <<>>

IdFrame ==
    UNCHANGED <<repositories, document, runs, settings, event, owner, config, answers, authz,
                repos, parentNodeId, idx, runReturned, failed>>

\* linkIssueAsSubItem(client, parentNodeId, childNodeId) is applied.
ApplyLink ==
    /\ pc = "apply"
    /\ \E linkOk \in BOOLEAN :
         LET childNodeId == childIssues[1].nodeId
             n == IssueOfId(childNodeId, remote)
             res == linkIssueAsSubItem(parentNodeId, childNodeId, linkOk)
         IN  /\ linkOk => (parentNodeId = ParentId /\ n > 0)
             /\ calls' = [k \in 1..Len(res.calls) |-> Call(res.calls[k], <<>>, n, "", "", res.ok)]
             /\ remote' = IF res.ok THEN [remote EXCEPT ![n].linked = TRUE] ELSE remote
             /\ logs' = IF res.ok THEN <<>> ELSE <<Log("thrown", res.error)>>
             /\ unhandled' = ~res.ok
    /\ pc' = "linked"
    /\ childIssues' = childIssues
    /\ IdFrame

\* getChildIssues(client, parentNodeId) is applied.
ApplyGetChildIssues ==
    /\ pc = "apply"
    /\ \E queryOk \in BOOLEAN, shape \in ResponseShapes :
         LET got == getChildIssues(parentNodeId, remote, queryOk, shape)
             thrown == getChildIssuesThrown(parentNodeId, queryOk, shape)
         IN  /\ queryOk => parentNodeId = ParentId
             /\ queryOk \/ shape = "node.subIssues"
             /\ calls' = [k \in 1..Len(thrown.calls) |->
                             Call(thrown.calls[k], <<>>, 0, "", "", queryOk)]
             /\ childIssues' = IF got.ok THEN got.list ELSE childIssues
             /\ logs' = IF got.ok THEN <<>> ELSE <<Log("thrown", thrown.error)>>
             /\ unhandled' = ~got.ok
    /\ pc' = "queried"
    /\ remote' = remote
    /\ IdFrame

\* updateChildIssueStatus(client, childIssue, isOpen) is applied to an issue of
\* the remote; pc tells afterwards which of the two values isOpen had.
ApplyStatus ==
    /\ pc = "apply"
    /\ \E n \in 1..Len(remote), isOpen \in BOOLEAN, ok \in BOOLEAN :
         LET req == statusRequest(RefOf(n), isOpen)
         IN  /\ calls' = <<Call("setState", req.repo, req.issue_number, req.state, "", ok)>>
             /\ remote' = IF ok THEN [remote EXCEPT ![req.issue_number].state = req.state]
                                 ELSE remote
             /\ unhandled' = ~ok
             /\ pc' = IF isOpen THEN "statusOpen" ELSE "statusClosed"
    /\ UNCHANGED <<childIssues, logs>>
    /\ IdFrame

IdNext ==
    \/ ApplyLink
    \/ ApplyGetChildIssues
    \/ ApplyStatus

IdSpec == IdInit /\ [][IdNext]_vars

\* An id that is the empty string or not a string.
BadId(id) == id = NoId \/ id \in NonStringIds

\* C34: linking with a parent id or a child id that is empty or not a string,
\* and querying the linked children with such a parent id, throws 'Invalid
\* parent issue ID' (for the parent) or 'Invalid child issue ID' (for the
\* child) without any remote call, and leaves the remote issues as they were.
IdentifierValidation ==
    /\ [](/\ (pc \in {"linked", "queried"} /\ BadId(parentNodeId)) =>
                /\ calls = <<>>
                /\ unhandled
                /\ logs = <<Log("thrown", "Invalid parent issue ID")>>
          /\ (pc = "linked" /\ ~BadId(parentNodeId) /\ BadId(childIssues[1].nodeId)) =>
                /\ calls = <<>>
                /\ unhandled
                /\ logs = <<Log("thrown", "Invalid child issue ID")>>)
    /\ [][(/\ pc = "apply"
           /\ \/ pc' \in {"linked", "queried"} /\ BadId(parentNodeId)
              \/ pc' = "linked" /\ BadId(childIssues[1].nodeId)) =>
             (calls' = <<>> /\ remote' = remote /\ childIssues' = childIssues)]_vars

\* A link with a valid parent id and a child id that is a number was refused.
IdentifierValidationWitness ==
    /\ pc = "linked"
    /\ parentNodeId = ParentId
    /\ childIssues[1].nodeId = NumberId
    /\ logs = <<Log("thrown", "Invalid child issue ID")>>
    /\ remote = <<UnlinkedChild>>

\* A query with a null parent id was refused.
InvalidQueryWitness ==
    /\ pc = "queried"
    /\ parentNodeId = NullId
    /\ calls = <<>>
    /\ logs = <<Log("thrown", "Invalid parent issue ID")>>

\* Valid ids reach the remote: the link is made.
ValidLinkWitness ==
    /\ pc = "linked"
    /\ ~unhandled
    /\ remote = <<LinkedChild>>
    /\ CountOp(calls, "addSubIssue") = 1


----------------------------------------------------------------------------
(* Status propagation.                                                      *)

\* C35: every status request a run sends asks for the state closed; a step
\* that closes a child is a step of the close handler, and it changes nothing
\* of the child but its state and nothing of the other children; no step of
\* any run takes a child from closed to open.
StatusIsCloseOnly ==
    /\ [](\A k \in 1..Len(calls) : calls[k].op = "setState" => calls[k].title = "closed")
    /\ [][/\ Len(remote') >= Len(remote)
          /\ \A n \in 1..Len(remote) :
                /\ remote[n].state = "closed" => remote'[n].state = "closed"
                /\ remote'[n].state # remote[n].state =>
                      /\ pc = "status"
                      /\ remote'[n] = [remote[n] EXCEPT !.state = "closed"]
                      /\ \A m \in 1..Len(remote) : m # n => remote'[m] = remote[m]
                      /\ calls' = Append(calls, Call("setState", remote[n].repo, n,
                                                     "closed", "", TRUE))]_vars

\* A closed run has closed a linked child and left its title and body alone.
StatusIsCloseOnlyWitness ==
    /\ pc = "done"
    /\ event.action = "closed"
    /\ \E k \in 1..Len(calls) :
          /\ calls[k].op = "setState" /\ calls[k].ok
          /\ remote[calls[k].num].state = "closed"
          /\ remote[calls[k].num].title = ChildTitle
          /\ remote[calls[k].num].linked

\* The status operation on its own: given open=false it asks for closed, given
\* open=true for open; when the request succeeds the issue has that state and
\* is otherwise as before, when it fails the issue is as before.
StatusOperationSetsState ==
    [][(pc = "apply" /\ pc' \in {"statusOpen", "statusClosed"}) =>
          LET asked == IF pc' = "statusOpen" THEN "open" ELSE "closed"
              n == calls'[1].num
          IN  /\ Len(calls') = 1
              /\ calls'[1].op = "setState" /\ calls'[1].title = asked
              /\ calls'[1].repo = remote[n].repo
              /\ remote' = IF calls'[1].ok
                           THEN [remote EXCEPT ![n].state = asked]
                           ELSE remote]_vars

\* The operation reopened a closed issue when given open=true.
StatusReopenWitness ==
    /\ pc = "statusOpen"
    /\ ~unhandled
    /\ remote = <<LinkedChild>>
    /\ calls[1].title = "open"


----------------------------------------------------------------------------
(* The link step of the labeled handler.                                    *)

LinkCalls == {k \in 1..Len(calls) : calls[k].op = "addSubIssue"}

CreatedCalls == {k \in 1..Len(calls) : calls[k].op = "create" /\ calls[k].ok}

\* C36: a link call is made only in a labeled run, with the node id of the
\* run's parent, for a child that a successful create call of the same run
\* returned for the same target just before (only the fetch of that child's
\* node id may lie between); a target whose create failed gets no link call
\* and no two link calls are for the same child, so there are never more link
\* calls than successful creates.
LinkOnlyAfterCreate ==
    /\ \A k \in LinkCalls :
          /\ event.action = "labeled"
          /\ parentNodeId = ParentId
          /\ \E j \in CreatedCalls :
                /\ j < k
                /\ calls[j].repo = calls[k].repo
                /\ calls[j].num = calls[k].num
                /\ \A m \in (j + 1)..(k - 1) :
                      calls[m].op = "getIssueNodeId" /\ calls[m].num = calls[j].num
          /\ calls[k].ok => remote[calls[k].num].linked
    /\ \A j \in 1..Len(calls) :
          (calls[j].op = "create" /\ ~calls[j].ok) =>
              \A k \in LinkCalls : calls[k].repo # calls[j].repo
    /\ \A k \in LinkCalls : \A m \in LinkCalls : calls[k].num = calls[m].num => k = m
    /\ Cardinality(LinkCalls) <= Cardinality(CreatedCalls)

\* One target's create failed and got no link call, the other's child was
\* created and linked.
LinkOnlyAfterCreateWitness ==
    /\ pc = "done"
    /\ CountOp(calls, "create") = 2
    /\ Cardinality(CreatedCalls) = 1
    /\ Cardinality(LinkCalls) = 1
    /\ \E k \in LinkCalls : calls[k].ok


----------------------------------------------------------------------------
(* Children of the parent per target repository.                            *)

\* The children that exist for the parent in a repository.
ChildrenIn(name) == {n \in 1..Len(remote) : remote[n].repo = name}

\* C37: whatever labeled runs were made for the parent, a target repository
\* holds at most one child issue created for it.
NoDuplicateChildren ==
    \A n \in 1..Len(remote) : Cardinality(ChildrenIn(remote[n].repo)) <= 1

\* A second labeled run that resolved the one repository in which the first
\* run had created and linked a child has created and linked another there.
DuplicateChildrenWitness ==
    /\ runs = 2
    /\ pc = "done"
    /\ event.action = "labeled"
    /\ ReposNames = {Web}
    /\ Len(remote) = 2
    /\ \A n \in 1..Len(remote) : remote[n].repo = Web /\ remote[n].linked
    /\ CountOp(calls, "create") = 1


----------------------------------------------------------------------------
(* The handlers and the try block of run().                                 *)

\* C38: once run() has left its try block no call of the run is made any
\* more, the handler having finished before; and a linked-children query that
\* fails inside a handler makes the run failed, with one top-level failure
\* message and no child updated or closed.
HandlerAwaited ==
    /\ [][(runReturned /\ runReturned') => calls' = calls]_vars
    /\ [](\A k \in 1..Len(calls) :
             (calls[k].op = "subIssues" /\ ~calls[k].ok) =>
                 /\ failed
                 /\ CountLevel(logs, "failed") = 1
                 /\ TouchCalls = {})

\* run() had returned without failure when the handler's query failed: the
\* rejection reached nobody and the run is not failed.
UnawaitedFailureWitness ==
    /\ pc = "done"
    /\ runReturned
    /\ unhandled
    /\ ~failed
    /\ CountLevel(logs, "failed") = 0
    /\ \E k \in 1..Len(calls) : calls[k].op = "subIssues" /\ ~calls[k].ok
    /\ TouchCalls = {}

\* What does hold: a failing fetch of the parent's node id, which run() awaits
\* itself, is the run's one top-level failure and no handler is started.
ParentIdFailureIsFatal ==
    \A k \in 1..Len(calls) :
       (calls[k].op = "getIssueNodeId" /\ calls[k].repo = <<>> /\ ~calls[k].ok) =>
           /\ pc = "done" /\ failed /\ k = Len(calls)
           /\ CountLevel(logs, "failed") = 1


----------------------------------------------------------------------------
(* The children the linked-children query returns.                          *)

\* The children a handler holds references to after the query.
ReturnedNumbers == {childIssues[c].number : c \in 1..Len(childIssues)}

\* C39: whatever the number of children linked to the parent, a
\* linked-children query that returned has returned every one of them, so
\* that the handler, which visits each returned child once, reaches every
\* linked child.
CompleteCoverage ==
    (pc = "queried" /\ ~unhandled) => ReturnedNumbers = LinkedNumbers

\* What holds: up to one page of linked children all are returned, beyond it
\* the first page only.
CoverageUpToOnePage ==
    (pc = "queried" /\ ~unhandled) =>
       /\ ReturnedNumbers \subseteq LinkedNumbers
       /\ Cardinality(LinkedNumbers) <= PageSize => ReturnedNumbers = LinkedNumbers
       /\ Cardinality(LinkedNumbers) > PageSize => Len(childIssues) = PageSize

\* Of fifty-one linked children the query returned fifty.
PageCutWitness ==
    /\ pc = "queried"
    /\ ~unhandled
    /\ Cardinality(LinkedNumbers) = PageSize + 1
    /\ Len(childIssues) = PageSize


----------------------------------------------------------------------------
(* Termination of a run.                                                    *)

\* A step of the run in progress: every remote call it awaits returns or
\* throws, so a run that can take a step eventually takes one.
RunStep ==
    \/ LabelGate
    \/ LoadConfig
    \/ CheckPermission
    \/ Discover
    \/ FetchParentNodeId
    \/ Dispatch
    \/ OpenedStep
    \/ EditedFetch
    \/ EditedStep
    \/ StatusFetch
    \/ StatusStep

\* One run, for a parent that has no child yet or one linked child.
LiveInit ==
    /\ repositories = OrgListing
    /\ document = NoSource
    /\ remote \in { <<>>, <<LinkedChild>> }
    /\ runs = 0
    /\ pc = "idle"
    /\ settings = NoSettings
    /\ event = NoEvent
    /\ owner \in Owners
    /\ config = NoDoc
    /\ answers = <<>>
    /\ authz = NoAuthz
    /\ repos = <<>>
    /\ parentNodeId = NoId
    /\ childIssues = <<>>
    /\ idx = 0
    /\ runReturned = FALSE
    /\ failed = FALSE
    /\ unhandled = FALSE
    /\ calls = <<>>
    /\ logs = <<>>

LiveNext ==
    \/ StartRun
    \/ RunStep

LiveSpec == LiveInit /\ [][LiveNext]_vars /\ WF_vars(RunStep)

\* The calls of the current run of one operation on one target or child.
CallsOn(op, repo, num) ==
    {k \in 1..Len(calls) : calls[k].op = op /\ calls[k].repo = repo /\ calls[k].num = num}

\* C40: a run that has started ends, whatever its remote calls return; and
\* within a run there is at most one create call per target repository, at
\* most one link call, one update call and one close call per child, and one
\* linked-children query, also when the call failed.
TerminationWithoutRetry ==
    /\ (pc # "idle") ~> [](pc = "done")
    /\ [](/\ \A r \in 1..Len(repos) :
                Cardinality({k \in 1..Len(calls) :
                                calls[k].op = "create" /\ calls[k].repo = repos[r].name}) <= 1
          /\ CountOp(calls, "create") <= Len(repos)
          /\ CountOp(calls, "subIssues") <= 1
          /\ \A k \in 1..Len(calls) :
                calls[k].op \in {"addSubIssue", "update", "setState"} =>
                    Cardinality(CallsOn(calls[k].op, calls[k].repo, calls[k].num)) = 1)

\* A labeled run has ended after a failed create for one target and a failed
\* link for the other, each attempted once.
TerminationWithoutRetryWitness ==
    /\ pc = "done"
    /\ Len(repos) = 2
    /\ CountOp(calls, "create") = 2
    /\ \E k \in 1..Len(calls) : calls[k].op = "create" /\ ~calls[k].ok
    /\ \E k \in 1..Len(calls) : calls[k].op = "addSubIssue" /\ ~calls[k].ok

====
